---- MODULE Spec2Model ----
(***************************************************************************)
(* Settlement and graduation scripts of the SoothSayer adjudicator:        *)
(* scripts/settler.mjs (class Settler) and scripts/create-market.mjs       *)
(* (class MarketCreator), together with the local files they read and      *)
(* write (data/markets.json, data/market-mappings.json) and the on-chain   *)
(* contracts they call.  Each CLI invocation is a process; every `await`   *)
(* of the code is a point where another invocation may run.                *)
(***************************************************************************)
EXTENDS Integers, Sequences, FiniteSets, TLC

VARIABLES markets, mappings, chain, allowance, txs, pc, loc, prevRun, serial,
          fsFaults, codec, ledger, leaderboard

\* the state of the adapter side (metadata codec, commitments, leaderboard),
\* which the two scripts never touch
adapter == <<codec, ledger, leaderboard>>

vars ==
  <<markets, mappings, chain, allowance, txs, pc, loc, prevRun, serial,
    fsFaults, adapter>>

(* ------------------------------ bounds --------------------------------- *)

\* settle, finalize and createMarket transactions that can be confirmed in
\* one behaviour
MaxTx == 2
\* on-chain market addresses 1..MaxAddr (address 1 is deployed initially)
MaxAddr == 3
\* `now` values an invocation of create can observe
MaxTime == 2

Procs == {"p1", "p2"}
MarketIds == {"m1", "m2"}
\* ids the CLI can be given: the stored ones and one that is not stored
InputIds == MarketIds \cup {"m3"}
Addrs == 1..MaxAddr
Times == 1..MaxTime

\* an absent market_address field (undefined in the JSON)
NoAddr == 0
\* A transaction hash names the transaction: its kind, the contract or market
\* it is about, and its rank among the confirmed transactions of that kind
\* on that target.  NoTx is an absent hash field.
NoTx == [kind |-> "none", addr |-> NoAddr, mid |-> "none", n |-> 0]
TxKinds == {"settle", "finalize", "create"}

(* --------------------------- program constants ------------------------- *)

\* a label table with NO and YES exchanged
OutcomesSwapped == <<"YES", "NO", "INVALID">>

\* MARKET_STATES is not needed by settle/finalize; OUTCOMES is (line 55)
OUTCOMES == <<"NO", "YES", "INVALID">>
OutcomeInts == 0..2

\* NaN, the value of parseInt for a text that does not start with a digit
\* and of getTime() for an invalid Date; it compares false with everything
NaN == -1

\* parseInt(text): the number written by the leading digits of the text
\* (texts are sequences of characters), NaN when there is none
DigitChars == <<"0", "1", "2", "3", "4", "5", "6", "7", "8", "9">>
RECURSIVE LeadingNumber(_, _)
LeadingNumber(s, acc) ==
  IF s = <<>> \/ \A d \in DOMAIN DigitChars : DigitChars[d] # Head(s)
  THEN acc
  ELSE LeadingNumber(Tail(s),
         10 * acc + (CHOOSE d \in DOMAIN DigitChars :
                        DigitChars[d] = Head(s)) - 1)
ParseInt(s) ==
  IF s = <<>> \/ \A d \in DOMAIN DigitChars : DigitChars[d] # Head(s)
  THEN NaN
  ELSE LeadingNumber(s, 0)

\* the <outcome> arguments the settle command is given: the three documented
\* ones, a number outside the table, a word, and a number followed by a word
OutcomeArgs ==
  { <<"0">>, <<"1">>, <<"2">>, <<"3">>, <<"y", "e", "s">>, <<"1", "x">> }

\* identities are short hexadecimal strings, kept as sequences of characters
\* so that toLowerCase is computed and not assumed
LowerChar(c) == IF c = "A" THEN "a" ELSE IF c = "B" THEN "b" ELSE c
ToLowerCase(s) == [i \in 1..Len(s) |-> LowerChar(s[i])]

\* this.wallet.address (checksummed, mixed case)
Wallet == <<"A", "b">>
\* adjudicator() values the pre-deployed market may return
Adjudicators == { <<"a", "b">>, <<"b", "a">> }

(* ------------------------------ records -------------------------------- *)

\* an unset outcomeValue / resolved_at field
NoValue == -1
NoTime == 0

NoMapping == [market_address |-> NoAddr, status |-> "none"]
EmptyMappings == [m \in MarketIds |-> NoMapping]

NoStatus ==
  [error |-> TRUE, isSettled |-> FALSE, isFinalized |-> FALSE,
   adjudicator |-> <<>>, outcome |-> "null", isOurs |-> FALSE]

\* the resolution rule of a market: automatic (source, op, target) or manual
ManualRule == [source |-> "manual", op |-> "none", target |-> 0]
AutoRule(op, target) == [source |-> "coingecko", op |-> op, target |-> target]

\* the rules the two stored markets start with: the documented example for
\* m1 (BTC >= 75000), a manual rule for m2
DefaultRules == [m \in MarketIds |->
                  IF m = "m1" THEN AutoRule("gte", 75000) ELSE ManualRule]

\* an unset outcomeEvidence field (evidence: the raw value and its source)
NoEvidence == [value |-> NoValue, source |-> "none"]

\* a market record as stored in data/markets.json (its question is filled
\* in by Asked)
MarketRecord(addr, rule, nc, na) ==
  [status |-> "open", market_address |-> addr, question |-> "none",
   settled_tx |-> NoTx, finalized_tx |-> NoTx,
   outcome |-> "unset", deadline |-> MaxTime,
   rule |-> rule, commitments |-> nc, agents |-> na,
   outcomeValue |-> NoValue, outcomeEvidence |-> NoEvidence,
   resolved_at |-> NoTime]

\* a record that is not in the file, and the object the catch of loadMarkets
\* returns: { markets: {} }
NoMarket ==
  [MarketRecord(NoAddr, ManualRule, 0, 0) EXCEPT !.status = "absent",
                                                 !.deadline = NoTime]
EmptyMarkets == [m \in MarketIds |-> NoMarket]

\* the record with its question text; the text of market m is written m, as
\* in the question handed to createMarket
Asked(rec, q) == [rec EXCEPT !.question = q]

IdleLoc ==
  [cmd |-> "none", addr |-> NoAddr, out |-> 0, mid |-> "none", tx |-> NoTx,
   rd |-> NoStatus, snap |-> EmptyMappings, now |-> NoTime,
   db |-> EmptyMarkets, rest |-> <<>>, shown |-> 0, deadline |-> NoTime]

NoRun ==
  [cmd |-> "none", addr |-> NoAddr, mid |-> "none", res |-> "none",
   again |-> FALSE]

Undeployed ==
  [exists |-> FALSE, adjudicator |-> <<>>, question |-> "none",
   isSettled |-> FALSE, isFinalized |-> FALSE, outcome |-> 0]

\* a TruthMarket as createMarket deploys it: question and adjudicator are set
Deployed(adj, q) ==
  [exists |-> TRUE, adjudicator |-> adj, question |-> q,
   isSettled |-> FALSE, isFinalized |-> FALSE, outcome |-> 0]

(* --------------------------- Metadata Codec ---------------------------- *)

\* A text is a sequence of lines; a line is a sequence of symbols.  A symbol
\* is the marker (the section sign), the key:value separator, a blank, or a
\* word (a run of characters holding none of the three).
Marker == "SECTION"
Sep == ":"
Sp == " "

\* index of the first c in s, Len(s) + 1 when there is none
FirstIdx(s, c) ==
  IF \E i \in 1..Len(s) : s[i] = c
  THEN CHOOSE i \in 1..Len(s) : s[i] = c /\ \A j \in 1..(i - 1) : s[j] # c
  ELSE Len(s) + 1

\* `':' in line`
HasSep(s) == \E i \in 1..Len(s) : s[i] = Sep

\* str.lstrip / str.rstrip / str.strip
LStrip(s) ==
  IF \A i \in 1..Len(s) : s[i] = Sp THEN <<>>
  ELSE SubSeq(s, CHOOSE i \in 1..Len(s) :
                    s[i] # Sp /\ \A j \in 1..(i - 1) : s[j] = Sp, Len(s))
RStrip(s) ==
  IF \A i \in 1..Len(s) : s[i] = Sp THEN <<>>
  ELSE SubSeq(s, 1, CHOOSE i \in 1..Len(s) :
                    s[i] # Sp /\ \A j \in (i + 1)..Len(s) : s[j] = Sp)
Strip(s) == RStrip(LStrip(s))

\* line.split(None, 1): the first word and, when something other than blanks
\* follows it, the remainder without its leading blanks
SplitWs1(s) ==
  LET t == LStrip(s)
      i == FirstIdx(t, Sp)
      rest == LStrip(SubSeq(t, i, Len(t)))
  IN  IF t = <<>> THEN <<>>
      ELSE IF rest = <<>> THEN <<SubSeq(t, 1, i - 1)>>
      ELSE <<SubSeq(t, 1, i - 1), rest>>

\* str.split(): all the words
RECURSIVE SplitWsAll(_)
SplitWsAll(s) ==
  LET t == LStrip(s)
      i == FirstIdx(t, Sp)
  IN  IF t = <<>> THEN <<>>
      ELSE <<SubSeq(t, 1, i - 1)>> \o SplitWsAll(SubSeq(t, i, Len(t)))

\* s.split(':', 1) of an s that holds a separator
SplitSep(s) ==
  LET i == FirstIdx(s, Sep)
  IN  <<SubSeq(s, 1, i - 1), SubSeq(s, i + 1, Len(s))>>

\* raw.strip().splitlines(): blank lines at both ends go, and so do the
\* blanks before the first line's text and after the last line's
RECURSIVE DropBlankHead(_)
DropBlankHead(t) ==
  IF t = <<>> THEN <<>>
  ELSE IF LStrip(Head(t)) = <<>> THEN DropBlankHead(Tail(t))
  ELSE <<LStrip(Head(t))>> \o Tail(t)
RECURSIVE DropBlankTail(_)
DropBlankTail(t) ==
  IF t = <<>> THEN <<>>
  ELSE IF RStrip(t[Len(t)]) = <<>> THEN DropBlankTail(SubSeq(t, 1, Len(t) - 1))
  ELSE SubSeq(t, 1, Len(t) - 1) \o <<RStrip(t[Len(t)])>>
StripLines(t) == DropBlankTail(DropBlankHead(t))

\* Parsed values.  A dict is a function from keys (words) to values; a value
\* is a string or a dict, kept in one record shape: the entries of a block's
\* dict are strings (key:value pairs, _text) or sub-tag dicts of strings.
NoPairs == [k \in {} |-> <<>>]
StrEntry(v) == [kind |-> "str", str |-> v, map |-> NoPairs]
SubEntry(pairs) == [kind |-> "map", str |-> <<>>, map |-> pairs]
NoEntries == [k \in {} |-> StrEntry(<<>>)]
StrValue(v) == [kind |-> "str", str |-> v, map |-> NoEntries]
MapValue(es) == [kind |-> "map", str |-> <<>>, map |-> es]
EmptyDict == [k \in {} |-> StrValue(<<>>)]

\* d[k] = v
Put(d, k, v) == [x \in DOMAIN d \cup {k} |-> IF x = k THEN v ELSE d[x]]

\* the reserved key of _save_tag and the key of a sub-tag
TextKey == <<"_text">>
SubKey(subtag) == <<"__">> \o subtag

\* lines 113-117: the key:value tokens of a sub-tag line, later ones winning
RECURSIVE TokenPairs(_)
TokenPairs(tokens) ==
  IF tokens = <<>> THEN NoPairs
  ELSE LET n == Len(tokens)
           pre == TokenPairs(SubSeq(tokens, 1, n - 1))
           kv == SplitSep(tokens[n])
       IN  IF HasSep(tokens[n]) THEN Put(pre, kv[1], kv[2]) ELSE pre

\* lines 143-149: the pairs of a block's content lines
RECURSIVE ContentPairs(_)
ContentPairs(content) ==
  IF content = <<>> THEN NoEntries
  ELSE LET n == Len(content)
           pre == ContentPairs(SubSeq(content, 1, n - 1))
           kv == SplitSep(content[n])
       IN  IF HasSep(content[n])
           THEN Put(pre, Strip(kv[1]), StrEntry(Strip(kv[2])))
           ELSE Put(pre, TextKey, StrEntry(content[n]))

\* _save_tag (lines 139-150); content is never empty when it is called
SaveTag(result, tag, content) ==
  IF Len(content) = 1 /\ ~HasSep(content[1])
  THEN Put(result, tag, StrValue(content[1]))
  ELSE Put(result, tag, MapValue(ContentPairs(content)))

\* the loop state of parse_question: result, current_tag, current_content,
\* and whether the interpreter has raised
ParseStart ==
  [result |-> EmptyDict, tag |-> <<>>, content |-> <<>>, raised |-> FALSE]

IsSubTagLine(line) ==
  Len(line) >= 2 /\ line[1] = Marker /\ line[2] = Marker
IsTagLine(line) == Len(line) >= 1 /\ line[1] = Marker

\* lines 123-124 and 134-135: save the block that is open, if it has content
Closed(st) ==
  IF st.tag # <<>> /\ st.content # <<>>
  THEN SaveTag(st.result, st.tag, st.content)
  ELSE st.result

\* lines 108-120: a sub-tag line.  result.setdefault(current_tag, {}) hands
\* back the value already stored under the tag; item assignment on a str
\* raises TypeError.
SubTagStep(st, line) ==
  LET parts == SplitWs1(line)
      subtag == SubSeq(parts[1], 3, Len(parts[1]))
      pairs == TokenPairs(SplitWsAll(parts[2]))
      cur == IF st.tag \in DOMAIN st.result THEN st.result[st.tag]
             ELSE MapValue(NoEntries)
  IN  IF Len(parts) <= 1 \/ st.tag = <<>> THEN st
      ELSE IF cur.kind = "str" THEN [st EXCEPT !.raised = TRUE]
      ELSE [st EXCEPT !.result =
              Put(st.result, st.tag,
                  MapValue(Put(cur.map, SubKey(subtag), SubEntry(pairs))))]

\* lines 121-130: a top-level tag line
TagStep(st, line) ==
  LET parts == SplitWs1(line)
  IN  [st EXCEPT !.result = Closed(st),
                 !.tag = Tail(parts[1]),
                 !.content = IF Len(parts) > 1 THEN <<parts[2]>> ELSE <<>>]

\* one iteration of the loop of lines 107-132
LineStep(st, line) ==
  IF st.raised THEN st
  ELSE IF IsSubTagLine(line) THEN SubTagStep(st, line)
  ELSE IF IsTagLine(line) THEN TagStep(st, line)
  ELSE [st EXCEPT !.content = Append(st.content, line)]

RECURSIVE ParseLoop(_, _)
ParseLoop(st, lines) ==
  IF lines = <<>> THEN st
  ELSE ParseLoop(LineStep(st, Head(lines)), Tail(lines))

\* parse_question(raw): the dict it returns, or the exception it raises
ParseQuestion(raw) ==
  LET st == ParseLoop(ParseStart, StripLines(raw))
  IN  IF st.raised THEN [raised |-> TRUE, result |-> EmptyDict]
      ELSE [raised |-> FALSE, result |-> Closed(st)]

\* The required fields of a parsed question (Rule Keys, lines 50-58): the
\* first one that is missing or malformed, "none" when all are there.
NumberWords == {<<"75000">>, <<"5000">>}
IsScalar(d, k) == k \in DOMAIN d /\ d[k].kind = "str"
HasField(d, k, f) ==
  /\ k \in DOMAIN d /\ d[k].kind = "map"
  /\ f \in DOMAIN d[k].map /\ d[k].map[f].kind = "str"
RuleKey == <<"rule">>
QuestionKey == <<"question">>
MissingField(d) ==
  IF ~IsScalar(d, QuestionKey) THEN "question"
  ELSE IF RuleKey \notin DOMAIN d THEN "rule"
  ELSE IF ~HasField(d, RuleKey, <<"source">>) THEN "rule.source"
  ELSE IF d[RuleKey].map[<<"source">>].str = <<"manual">> THEN "none"
  ELSE IF ~HasField(d, RuleKey, <<"metric">>) THEN "rule.metric"
  ELSE IF ~HasField(d, RuleKey, <<"op">>) THEN "rule.op"
  ELSE IF ~HasField(d, RuleKey, <<"target">>) THEN "rule.target"
  ELSE IF d[RuleKey].map[<<"target">>].str \notin NumberWords
       THEN "rule.target"
  ELSE "none"

\* parse(raw): the parsed metadata, a ParseError naming a field, or the
\* exception parse_question raises
NoParse == [res |-> "none", field |-> "none", meta |-> EmptyDict]
Parse(raw) ==
  LET r == ParseQuestion(raw)
  IN  IF r.raised
      THEN [res |-> "TypeError", field |-> "none", meta |-> EmptyDict]
      ELSE IF MissingField(r.result) # "none"
      THEN [res |-> "ParseError", field |-> MissingField(r.result),
            meta |-> r.result]
      ELSE [res |-> "ok", field |-> "none", meta |-> r.result]

\* the elements of a finite set in a fixed order
RECURSIVE SetToSeq(_)
SetToSeq(S) ==
  IF S = {} THEN <<>>
  ELSE LET x == CHOOSE y \in S : TRUE IN <<x>> \o SetToSeq(S \ {x})

\* concatenation of a sequence of sequences
RECURSIVE Flatten(_)
Flatten(ss) == IF ss = <<>> THEN <<>> ELSE Head(ss) \o Flatten(Tail(ss))

\* format(metadata), after the syntax of lines 30-48: a scalar on the tag's
\* line; a mapping as the tag's line followed by one key:value line per pair
\* and one sub-tag line, of blank-separated key:value tokens, per sub-tag
SubTagLine(name, pairs) ==
  <<Marker, Marker>> \o name \o
  Flatten([i \in 1..Cardinality(DOMAIN pairs) |->
             LET k == SetToSeq(DOMAIN pairs)[i]
             IN  <<Sp>> \o k \o <<Sep>> \o pairs[k]])
FormatBlock(tag, v) ==
  IF v.kind = "str" THEN << <<Marker>> \o tag \o <<Sp>> \o v.str >>
  ELSE LET ks == SetToSeq(DOMAIN v.map)
       IN  << <<Marker>> \o tag >> \o
           [i \in 1..Len(ks) |->
              IF ks[i][1] = "__"
              THEN SubTagLine(Tail(ks[i]), v.map[ks[i]].map)
              ELSE ks[i] \o <<Sep>> \o v.map[ks[i]].str]
Format(meta) ==
  LET ts == SetToSeq(DOMAIN meta)
  IN  Flatten([i \in 1..Len(ts) |-> FormatBlock(ts[i], meta[ts[i]])])

\* the codec at work: the text it was given, the result of parse, the text
\* format makes of that result, and the result of parsing that text
IdleCodec ==
  [phase |-> "none", raw |-> <<>>, out |-> NoParse, text |-> <<>>,
   back |-> NoParse]

\* The lines the texts are made of (the documented examples, lines 70-97,
\* and variations of them).
Line ==
  [ question |->
      <<Marker, "question", Sp, "Will", Sp, "BTC", Sp, "hit?">>,
    questionColon |->
      <<Marker, "question", Sp, "By", Sp, "12", Sep, "00?">>,
    questionBare |->
      <<Marker, "question">>,
    rule |->
      <<Marker, "rule">>,
    sourceManual |->
      <<"source", Sep, "manual">>,
    sourceAuto |->
      <<"source", Sep, "coingecko", Sep, "bitcoin">>,
    metric |->
      <<"metric", Sep, "price_usd">>,
    op |->
      <<"op", Sep, "gte">>,
    target |->
      <<"target", Sep, "75000">>,
    targetWord |->
      <<"target", Sep, "high">>,
    resolver |->
      <<"resolver", Sep, Sp, "soothsayer">>,
    sourceSub |->
      <<Marker, Marker, "source", Sp, "creator", Sep, "HypeWatcher", Sp, "origin", Sep, "moltbook", Sep, "95759b5b">>,
    draftSub |->
      <<Marker, Marker, "source", Sp, "draft">>,
    event |->
      <<Marker, "event", Sp, "US", Sp, "Election">>,
    eventBare |->
      <<Marker, "event">>,
    picture |->
      <<Marker, "picture", Sp, "https", Sep, "//img">>,
    note |->
      <<Marker, "note">>,
    firstText |->
      <<"first", Sp, "remark">>,
    secondText |->
      <<"second", Sp, "remark">> ]

\* what may stand before the first block
PrefixParts == { <<>>, <<Line.sourceSub>> }
QuestionParts ==
  { <<>>, <<Line.question>>, <<Line.question, Line.sourceSub>>,
    <<Line.questionColon>>, <<Line.questionBare>> }
RuleParts ==
  { <<>>,
    <<Line.rule>>,
    <<Line.rule, Line.sourceSub>>,
    <<Line.rule, Line.sourceManual>>,
    <<Line.rule, Line.sourceManual, Line.resolver, Line.sourceSub>>,
    <<Line.rule, Line.sourceManual, Line.rule, Line.sourceSub>>,
    <<Line.rule, Line.resolver>>,
    <<Line.rule, Line.sourceAuto, Line.metric, Line.op, Line.target>>,
    <<Line.rule, Line.sourceAuto, Line.metric, Line.op, Line.target,
      Line.sourceSub>>,
    <<Line.rule, Line.sourceAuto, Line.op, Line.target>>,
    <<Line.rule, Line.sourceAuto, Line.metric, Line.target>>,
    <<Line.rule, Line.sourceAuto, Line.metric, Line.op>>,
    <<Line.rule, Line.sourceAuto, Line.metric, Line.op, Line.targetWord>> }
OptionalParts ==
  { <<>>,
    <<Line.event>>,
    <<Line.eventBare>>,
    <<Line.eventBare, Line.sourceSub>>,
    <<Line.eventBare, Line.draftSub>>,
    <<Line.event, Line.eventBare, Line.sourceSub>>,
    <<Line.picture>>,
    <<Line.note, Line.firstText>>,
    <<Line.note, Line.firstText, Line.secondText>>,
    <<Line.note, Line.firstText, Line.op, Line.secondText>> }

\* the texts handed to parse: a question block, a rule block and one optional
\* block, each in one of its variants, in either order of the last two
Texts ==
  { a \o q \o r \o o :
      a \in PrefixParts, q \in QuestionParts, r \in RuleParts,
      o \in OptionalParts } \cup
  { q \o o \o r : q \in QuestionParts, r \in RuleParts, o \in OptionalParts }

(* --------------------- commitments and leaderboard --------------------- *)

Agents == {"a1", "a2"}
Positions == {"YES", "NO"}
\* the confidences (percent) an agent commits with
Confidences == {50, 75, 100}
Categories == {"crypto", "politics"}
\* the category tag of each stored market
Category == [m \in MarketIds |-> IF m = "m1" THEN "crypto" ELSE "politics"]

\* scores are kept in ten-thousandths; NoScore is the null score
ScoreUnit == 10000
NoScore == -1

\* a commitment as parsed from `[COMMIT] <POSITION> <CONFIDENCE>%`
Commitment(a, pos, conf) ==
  [agent |-> a, position |-> pos, confidence |-> conf, score |-> NoScore]

\* `outcome` = 1 if YES was correct, 0 if NO was correct
OutcomeBit(outcome) == IF outcome = "YES" THEN 1 ELSE 0

\* score = 1 - (confidence/100 - outcome)^2, in ten-thousandths
Score(cm, outcome) ==
  LET d == cm.confidence - 100 * OutcomeBit(outcome)
  IN  ScoreUnit - d * d

\* a scoring that gives 0 on an INVALID market
ScoreOfZeroOnInvalid(cm, outcome) ==
  IF outcome = "INVALID" THEN 0 ELSE Score(cm, outcome)

\* the score written on a commitment when its market resolves: null on an
\* INVALID outcome
ScoreOf(cm, outcome) ==
  IF outcome = "INVALID" THEN NoScore ELSE Score(cm, outcome)

\* the commitments of every market, in the order they were first made
EmptyLedger == [m \in MarketIds |-> <<>>]

\* per-agent aggregate: sum of scores, count, and the same per category
EmptyBoard ==
  [a \in Agents |->
     [sum |-> 0, count |-> 0,
      byCategory |-> [c \in Categories |-> [sum |-> 0, count |-> 0]]]]

\* position of agent a's commitment in the list, 0 when a has none
IndexOfAgent(list, a) ==
  IF \E i \in 1..Len(list) : list[i].agent = a
  THEN CHOOSE i \in 1..Len(list) : list[i].agent = a
  ELSE 0

\* an upsert that always appends
UpsertAppends(list, a, pos, conf) == Append(list, Commitment(a, pos, conf))

\* upsertCommitment on one market's list: latest overwrites
Upsert(list, a, pos, conf) ==
  LET i == IndexOfAgent(list, a)
  IN  IF i = 0 THEN Append(list, Commitment(a, pos, conf))
      ELSE [list EXCEPT ![i].position = pos, ![i].confidence = conf]

\* an update that counts null scores as commitments scored
AddScoreCountsNull(agg, cat, s) ==
  [sum |-> agg.sum + (IF s = NoScore THEN 0 ELSE s), count |-> agg.count + 1,
   byCategory |-> [agg.byCategory EXCEPT
                     ![cat] = [sum |-> @.sum + (IF s = NoScore THEN 0 ELSE s),
                               count |-> @.count + 1]]]

\* one scored commitment added to an aggregate; a null score adds nothing
AddScore(agg, cat, s) ==
  IF s = NoScore THEN agg
  ELSE [sum |-> agg.sum + s, count |-> agg.count + 1,
        byCategory |-> [agg.byCategory EXCEPT
                          ![cat] = [sum |-> @.sum + s, count |-> @.count + 1]]]

\* the aggregate after the scores of one market's list were added
RECURSIVE AddScores(_, _, _, _)
AddScores(agg, a, cat, list) ==
  IF list = <<>> THEN agg
  ELSE AddScores(IF Head(list).agent = a
                 THEN AddScore(agg, cat, Head(list).score) ELSE agg,
                 a, cat, Tail(list))

(* ------------------------------- Init ---------------------------------- *)

\* State after the files exist and one market has been deployed: m1 is a
\* graduated market whose record carries its address and that has five
\* commitments of three agents, m2 is purely local and has no commitment.
\* `serial` is the way the scripts are run: TRUE when the operator starts an
\* invocation only after the previous one has ended, FALSE when invocations
\* may overlap (nothing in the scripts prevents it).  `fsFaults` is TRUE when
\* reading a store file may fail (the catch of loadMarkets / loadMappings).
\* everything but the market records
SystemInit(s, f) ==
  /\ mappings = EmptyMappings
  /\ \E adj \in Adjudicators :
        chain = [a \in Addrs |->
                   IF a = 1 THEN Deployed(adj, "m1") ELSE Undeployed]
  /\ allowance = FALSE
  /\ txs = [k \in TxKinds |->
              IF k \in {"settle", "finalize"}
              THEN [a \in Addrs |-> 0] ELSE [m \in MarketIds |-> 0]]
  /\ pc = [p \in Procs |-> "idle"]
  /\ loc = [p \in Procs |-> IdleLoc]
  /\ prevRun = NoRun
  /\ serial = s
  /\ fsFaults = f

StoreInit(s, f, rules) ==
  /\ markets = [m \in MarketIds |->
        IF m = "m1" THEN Asked(MarketRecord(1, rules[m], 5, 3), m)
        ELSE Asked(MarketRecord(NoAddr, rules[m], 0, 0), m)]
  /\ SystemInit(s, f)

\* the adapter side at rest: no text handed to the codec, no commitment
\* stored, an empty leaderboard
AdapterIdle ==
  /\ codec = IdleCodec
  /\ ledger = EmptyLedger
  /\ leaderboard = EmptyBoard

InitWith(s, f, rules) == StoreInit(s, f, rules) /\ AdapterIdle

InitState(s) == InitWith(s, FALSE, DefaultRules)

Init == InitState(FALSE)

SerialInit == InitState(TRUE)

\* invocations may overlap and reads of the store files may fail
FaultyInit == InitWith(FALSE, TRUE, DefaultRules)

(* --------------------------- shared helpers ---------------------------- *)

\* whether a read of a store file succeeds
ReadOutcomes == IF fsFaults THEN BOOLEAN ELSE {TRUE}

\* loadMarkets / loadMappings: the parsed file, or the empty object when
\* readFileSync or JSON.parse throws
LoadMarkets(ok) == IF ok THEN markets ELSE EmptyMarkets
LoadMappings(ok) == IF ok THEN mappings ELSE EmptyMappings

\* results with which an invocation reports a failed read or transaction
Failures == {"error", "tx_failed", "threw"}

\* r is a completed run of the same command on the same market
SameRun(r, cmd, a, id) == r.cmd = cmd /\ r.addr = a /\ r.mid = id

\* process p may start an invocation
CanStart(p) ==
  /\ pc[p] = "idle"
  /\ serial => \A q \in Procs : pc[q] = "idle"

\* The invocation of process p ends with result res (what it printed).
\* When invocations run one at a time, prevRun keeps the run that ended
\* last: its command, its result, and whether it repeated the run completed
\* just before it, that run having reported no failure.
Finish(p, cmd, a, id, res) ==
  /\ pc' = [pc EXCEPT ![p] = "idle"]
  /\ loc' = [loc EXCEPT ![p] = IdleLoc]
  /\ prevRun' =
       IF serial
       THEN [cmd |-> cmd, addr |-> a, mid |-> id, res |-> res,
             again |-> SameRun(prevRun, cmd, a, id)
                         /\ prevRun.res \notin Failures]
       ELSE prevRun

\* txs[kind][t]: the transactions of that kind confirmed on chain for the
\* contract address or market id t
RECURSIVE SumOver(_, _)
SumOver(f, S) ==
  IF S = {} THEN 0
  ELSE LET x == CHOOSE y \in S : TRUE IN f[x] + SumOver(f, S \ {x})

TxTotal ==
  SumOver([k \in TxKinds |-> SumOver(txs[k], DOMAIN txs[k])], TxKinds)

Confirmed(kind, t) == [txs EXCEPT ![kind][t] = @ + 1]

\* the hash of the transaction Confirmed(kind, t) adds
HashOf(kind, a, id, t) ==
  [kind |-> kind, addr |-> a, mid |-> id, n |-> txs[kind][t] + 1]

\* h is the hash of a transaction confirmed on chain
IsConfirmed(h) ==
  /\ h.kind \in TxKinds
  /\ LET t == IF h.kind \in {"settle", "finalize"} THEN h.addr ELSE h.mid
     IN h.n >= 1 /\ h.n <= txs[h.kind][t]

(* ------------------------- Settler.getMarketStatus --------------------- *)

\* rpcOk = FALSE: one of the accessor calls failed (the catch of line 117)
GetMarketStatus(a, rpcOk) ==
  IF ~rpcOk \/ ~chain[a].exists
  THEN NoStatus
  ELSE [error |-> FALSE,
        isSettled |-> chain[a].isSettled,
        isFinalized |-> chain[a].isFinalized,
        adjudicator |-> chain[a].adjudicator,
        outcome |-> IF ~chain[a].isSettled THEN "null"
                    ELSE IF chain[a].outcome + 1 \in DOMAIN OUTCOMES
                    THEN OUTCOMES[chain[a].outcome + 1]
                    ELSE "undefined",
        isOurs |-> ToLowerCase(chain[a].adjudicator) = ToLowerCase(Wallet)]

(* ------------------------------ Settler.settle ------------------------- *)

\* settle without the "Already settled" return
SettleDecisionNoSettledCheck(st) ==
  IF st.error THEN "error"
  ELSE IF ~st.isOurs THEN "not_ours"
  ELSE "proceed"

\* settle without the "Not our market" return
SettleDecisionNoOwnerCheck(st) ==
  IF st.error THEN "error"
  ELSE IF st.isSettled THEN "already"
  ELSE "proceed"

\* the three early returns of settle, in the code's order
SettleDecision(st) ==
  IF st.error THEN "error"
  ELSE IF ~st.isOurs THEN "not_ours"
  ELSE IF st.isSettled THEN "already"
  ELSE "proceed"

\* "Update local state": the loop over db.markets
SettleLocalUpdate(db, a, h) ==
  [m \in DOMAIN db |->
     IF db[m].market_address = a
     THEN [db[m] EXCEPT !.status = "settling", !.settled_tx = h]
     ELSE db[m]]

\* await getMarketStatus and the checks that follow it
SettleRead(p, a, o) ==
  /\ CanStart(p)
  /\ \E rpcOk \in BOOLEAN :
       LET st == GetMarketStatus(a, rpcOk)
           d == SettleDecision(st)
       IN IF d = "proceed"
          THEN /\ pc' = [pc EXCEPT ![p] = "s_checked"]
               /\ loc' = [loc EXCEPT ![p] =
                    [IdleLoc EXCEPT !.cmd = "settle", !.addr = a, !.out = o,
                                    !.rd = st]]
               /\ UNCHANGED prevRun
          ELSE Finish(p, "settle", a, "none", d)
  /\ UNCHANGED <<markets, mappings, chain, txs, allowance, serial, fsFaults, adapter>>

\* the transaction is mined: the contract records the outcome (an outcome
\* that is no number cannot be encoded as uint8: the call throws)
SettleMined(p) ==
  /\ TxTotal < MaxTx
  /\ loc[p].out # NaN
  /\ txs' = Confirmed("settle", loc[p].addr)
  /\ chain' = [chain EXCEPT ![loc[p].addr].isSettled = TRUE,
                            ![loc[p].addr].outcome = loc[p].out]
  /\ pc' = [pc EXCEPT ![p] = "s_mined"]
  /\ loc' = [loc EXCEPT ![p].tx =
               HashOf("settle", loc[p].addr, "none", loc[p].addr)]
  /\ UNCHANGED <<markets, prevRun>>

\* a catch block that also marks the market as failed for good
SettleCatchMarks(p) ==
  /\ Finish(p, "settle", loc[p].addr, "none", "tx_failed")
  /\ markets' = [m \in DOMAIN markets |->
        IF markets[m].market_address = loc[p].addr
        THEN [markets[m] EXCEPT !.status = "invalid"] ELSE markets[m]]
  /\ UNCHANGED <<txs, chain>>

\* the catch block: "TX failed" is printed and settle returns
SettleCatch(p) ==
  /\ Finish(p, "settle", loc[p].addr, "none", "tx_failed")
  /\ UNCHANGED <<markets, txs, chain>>

\* await market.settle(outcomeInt, tStar) and await tx.wait(): the
\* transaction is mined, or one of the two awaits throws
SettleTx(p) ==
  /\ pc[p] = "s_checked"
  /\ (SettleMined(p) \/ SettleCatch(p))
  /\ UNCHANGED <<mappings, allowance, serial, fsFaults, adapter>>

\* loadMarkets, the update loop and saveMarkets run without an await
SettleWrite(p) ==
  /\ pc[p] = "s_mined"
  /\ \E ok \in ReadOutcomes :
       markets' = SettleLocalUpdate(LoadMarkets(ok), loc[p].addr, loc[p].tx)
  /\ Finish(p, "settle", loc[p].addr, "none", "ok")
  /\ UNCHANGED <<mappings, chain, txs, allowance, serial, fsFaults, adapter>>

(* ----------------------------- Settler.finalize ------------------------ *)

\* finalize without the "Already finalized" return
FinalizeDecisionNoFinalizedCheck(st) ==
  IF st.error THEN "error"
  ELSE IF ~st.isSettled THEN "not_settled"
  ELSE "proceed"

\* finalize without the "Not settled yet" return
FinalizeDecisionNoSettledCheck(st) ==
  IF st.error THEN "error"
  ELSE IF st.isFinalized THEN "already"
  ELSE "proceed"

\* the three early returns of finalize, in the code's order
FinalizeDecision(st) ==
  IF st.error THEN "error"
  ELSE IF ~st.isSettled THEN "not_settled"
  ELSE IF st.isFinalized THEN "already"
  ELSE "proceed"

FinalizeLocalUpdate(db, a, h) ==
  [m \in DOMAIN db |->
     IF db[m].market_address = a
     THEN [db[m] EXCEPT !.status = "finalized", !.finalized_tx = h]
     ELSE db[m]]

FinalizeRead(p, a) ==
  /\ CanStart(p)
  /\ \E rpcOk \in BOOLEAN :
       LET st == GetMarketStatus(a, rpcOk)
           d == FinalizeDecision(st)
       IN IF d = "proceed"
          THEN /\ pc' = [pc EXCEPT ![p] = "f_checked"]
               /\ loc' = [loc EXCEPT ![p] =
                    [IdleLoc EXCEPT !.cmd = "finalize", !.addr = a, !.rd = st]]
               /\ UNCHANGED prevRun
          ELSE Finish(p, "finalize", a, "none", d)
  /\ UNCHANGED <<markets, mappings, chain, txs, allowance, serial, fsFaults, adapter>>

FinalizeMined(p) ==
  /\ TxTotal < MaxTx
  /\ txs' = Confirmed("finalize", loc[p].addr)
  /\ chain' = [chain EXCEPT ![loc[p].addr].isFinalized = TRUE]
  /\ pc' = [pc EXCEPT ![p] = "f_mined"]
  /\ loc' = [loc EXCEPT ![p].tx =
               HashOf("finalize", loc[p].addr, "none", loc[p].addr)]
  /\ UNCHANGED <<markets, prevRun>>

\* the local update moved out of the try block: it runs after a failure too
FinalizeCatchWrites(p) ==
  /\ Finish(p, "finalize", loc[p].addr, "none", "tx_failed")
  /\ markets' = FinalizeLocalUpdate(markets, loc[p].addr,
                   HashOf("finalize", loc[p].addr, "none", loc[p].addr))
  /\ UNCHANGED <<txs, chain>>

FinalizeCatch(p) ==
  /\ Finish(p, "finalize", loc[p].addr, "none", "tx_failed")
  /\ UNCHANGED <<markets, txs, chain>>

FinalizeTx(p) ==
  /\ pc[p] = "f_checked"
  /\ (FinalizeMined(p) \/ FinalizeCatch(p))
  /\ UNCHANGED <<mappings, allowance, serial, fsFaults, adapter>>

FinalizeWrite(p) ==
  /\ pc[p] = "f_mined"
  /\ \E ok \in ReadOutcomes :
       markets' = FinalizeLocalUpdate(LoadMarkets(ok), loc[p].addr, loc[p].tx)
  /\ Finish(p, "finalize", loc[p].addr, "none", "ok")
  /\ UNCHANGED <<mappings, chain, txs, allowance, serial, fsFaults, adapter>>

(* ------------------------------- Settler.list -------------------------- *)

\* Object.values(db.markets).filter(m => m.market_address), in file order
Graduated(db) ==
  SelectSeq(<<"m1", "m2">>, LAMBDA m : db[m].market_address # NoAddr)

\* a loop that gives up at the first market whose read failed
ListStopsOnError(st, rest) == IF st.error THEN <<>> ELSE Tail(rest)

\* the markets left to the loop after one iteration: status.error is never
\* looked at
ListRemaining(st, rest) == Tail(rest)

\* loadMarkets and the filter; "No graduated markets found." ends the run
ListStart(p) ==
  /\ CanStart(p)
  /\ \E ok \in ReadOutcomes :
       LET db == LoadMarkets(ok)
       IN IF Graduated(db) = <<>>
          THEN Finish(p, "list", NoAddr, "none", "none_found")
          ELSE /\ pc' = [pc EXCEPT ![p] = "l_iter"]
               /\ loc' = [loc EXCEPT ![p] =
                    [IdleLoc EXCEPT !.cmd = "list", !.db = db,
                                    !.rest = Graduated(db)]]
               /\ UNCHANGED prevRun
  /\ UNCHANGED <<markets, mappings, chain, txs, allowance, serial, fsFaults,
                 adapter>>

\* one iteration: await getMarketStatus(m.market_address) and the printing
\* of the market (m.question.slice throws when the record has no question)
ListStep(p) ==
  /\ pc[p] = "l_iter"
  /\ \E rpcOk \in BOOLEAN :
       LET m == Head(loc[p].rest)
           st == GetMarketStatus(loc[p].db[m].market_address, rpcOk)
           rest == ListRemaining(st, loc[p].rest)
       IN IF loc[p].db[m].question = "none"
          THEN Finish(p, "list", NoAddr, "none", "threw")
          ELSE IF rest = <<>>
          THEN Finish(p, "list", NoAddr, "none", "listed")
          ELSE /\ loc' = [loc EXCEPT ![p].rest = rest,
                                     ![p].shown = @ + 1,
                                     ![p].rd = st]
               /\ UNCHANGED <<pc, prevRun>>
  /\ UNCHANGED <<markets, mappings, chain, txs, allowance, serial, fsFaults,
                 adapter>>

(* ------------- the local update as two file operations ----------------- *)

\* Invocations are separate node processes: between the readFileSync of
\* loadMarkets and the writeFileSync of saveMarkets of one invocation,
\* another invocation may read or write the file.

\* const db = this.loadMarkets() after a confirmed settle
SettleLoad(p) ==
  /\ pc[p] = "s_mined"
  /\ \E ok \in ReadOutcomes :
       loc' = [loc EXCEPT ![p].db = LoadMarkets(ok)]
  /\ pc' = [pc EXCEPT ![p] = "s_loaded"]
  /\ UNCHANGED <<markets, mappings, chain, txs, allowance, prevRun, serial,
                 fsFaults, adapter>>

\* the update loop on the loaded object and this.saveMarkets(db)
SettleSave(p) ==
  /\ pc[p] = "s_loaded"
  /\ markets' = SettleLocalUpdate(loc[p].db, loc[p].addr, loc[p].tx)
  /\ Finish(p, "settle", loc[p].addr, "none", "ok")
  /\ UNCHANGED <<mappings, chain, txs, allowance, serial, fsFaults, adapter>>

\* const db = this.loadMarkets() after a confirmed finalize
FinalizeLoad(p) ==
  /\ pc[p] = "f_mined"
  /\ \E ok \in ReadOutcomes :
       loc' = [loc EXCEPT ![p].db = LoadMarkets(ok)]
  /\ pc' = [pc EXCEPT ![p] = "f_loaded"]
  /\ UNCHANGED <<markets, mappings, chain, txs, allowance, prevRun, serial,
                 fsFaults, adapter>>

\* the update loop on the loaded object and this.saveMarkets(db)
FinalizeSave(p) ==
  /\ pc[p] = "f_loaded"
  /\ markets' = FinalizeLocalUpdate(loc[p].db, loc[p].addr, loc[p].tx)
  /\ Finish(p, "finalize", loc[p].addr, "none", "ok")
  /\ UNCHANGED <<mappings, chain, txs, allowance, serial, fsFaults, adapter>>

(* --------------------------- MarketCreator.create ---------------------- *)

\* Math.floor(new Date(deadlineStr).getTime() / 1000): the instant the date
\* text names, NaN when the record has no deadline (new Date(undefined) is
\* an invalid date)
DateSeconds(d) == IF d = NoTime THEN NaN ELSE d

\* x <= y as JavaScript evaluates it: false when either side is NaN
LessEq(x, y) == x # NaN /\ y # NaN /\ x <= y

\* the early returns of create before its first await, in the code's order
CreateDecision(db, mp, id, now) ==
  IF id \notin DOMAIN db \/ db[id] = NoMarket THEN "not_found"
  ELSE IF mp[id] # NoMapping THEN "already_synced"
  ELSE IF LessEq(DateSeconds(db[id].deadline), now) THEN "deadline_passed"
  ELSE "proceed"

\* loadMarkets, loadMappings, the mapping check and the deadline check
CreateStart(p, id, now) ==
  /\ CanStart(p)
  /\ \E okM \in ReadOutcomes, okP \in ReadOutcomes :
       LET db == LoadMarkets(okM)
           mp == LoadMappings(okP)
           d == CreateDecision(db, mp, id, now)
       IN IF d = "proceed"
          THEN /\ pc' = [pc EXCEPT ![p] = "c_loaded"]
               /\ loc' = [loc EXCEPT ![p] =
                    [IdleLoc EXCEPT !.cmd = "create", !.mid = id,
                                    !.snap = mp, !.now = now,
                                    !.deadline =
                                       DateSeconds(db[id].deadline)]]
               /\ UNCHANGED prevRun
          ELSE Finish(p, "create", NoAddr, id, d)
  /\ UNCHANGED <<markets, mappings, chain, txs, allowance, serial, fsFaults, adapter>>

\* await usdc.balanceOf: enough, not enough, or the call throws
CreateBalance(p) ==
  /\ pc[p] = "c_loaded"
  /\ \/ /\ pc' = [pc EXCEPT ![p] = "c_funded"]
        /\ UNCHANGED <<loc, prevRun>>
     \/ \E r \in {"insufficient", "threw"} :
          Finish(p, "create", NoAddr, loc[p].mid, r)
  /\ UNCHANGED <<markets, mappings, chain, txs, allowance, serial, fsFaults, adapter>>

\* await usdc.approve(LaunchpadEngine, MaxUint256) and await
\* approveTx.wait(): the allowance is set to the maximum, or an await throws
CreateApprove(p) ==
  /\ pc[p] = "c_funded"
  /\ \/ /\ allowance' = TRUE
        /\ pc' = [pc EXCEPT ![p] = "c_approved"]
        /\ UNCHANGED <<loc, prevRun>>
     \/ /\ Finish(p, "create", NoAddr, loc[p].mid, "threw")
        /\ UNCHANGED allowance
  /\ UNCHANGED <<markets, mappings, chain, txs, serial, fsFaults, adapter>>

\* the address the next created market gets
FreshAddrs == {a \in Addrs : ~chain[a].exists}
NewAddr == CHOOSE a \in FreshAddrs : \A b \in FreshAddrs : a <= b

\* await launchpad.createMarket and await tx.wait(): the market is deployed
\* with this wallet as adjudicator, or one of the two awaits throws (a
\* deadline that is no number cannot be encoded as uint64: the call throws)
CreateTx(p) ==
  /\ pc[p] = "c_approved"
  /\ \/ /\ TxTotal < MaxTx
        /\ FreshAddrs # {}
        /\ loc[p].deadline # NaN
        /\ txs' = Confirmed("create", loc[p].mid)
        /\ chain' = [chain EXCEPT ![NewAddr] = Deployed(Wallet, loc[p].mid)]
        /\ pc' = [pc EXCEPT ![p] = "c_mined"]
        /\ loc' = [loc EXCEPT ![p].addr = NewAddr,
                              ![p].tx = HashOf("create", NewAddr, loc[p].mid,
                                               loc[p].mid)]
        /\ UNCHANGED prevRun
     \/ /\ Finish(p, "create", NoAddr, loc[p].mid, "threw")
        /\ UNCHANGED <<txs, chain>>
  /\ UNCHANGED <<markets, mappings, allowance, serial, fsFaults, adapter>>

\* "Save mapping": the entry is added to the object loaded at the start
CreateMapping(mp, id, a) ==
  [mp EXCEPT ![id] = [market_address |-> a, status |-> "live"]]

\* the receipt's logs are searched; the mapping is saved, or the event is
\* missing and create returns without saving
CreateSave(p) ==
  /\ pc[p] = "c_mined"
  /\ \/ /\ mappings' = CreateMapping(loc[p].snap, loc[p].mid, loc[p].addr)
        /\ Finish(p, "create", loc[p].addr, loc[p].mid, "ok")
     \/ /\ Finish(p, "create", loc[p].addr, loc[p].mid, "no_event")
        /\ UNCHANGED mappings
  /\ UNCHANGED <<markets, chain, txs, allowance, serial, fsFaults, adapter>>

(* --------------------------- MarketCreator.list ------------------------ *)

\* the markets list prints as waiting for sync: status open, no mapping
ReadyForSync(db, mp) ==
  {id \in DOMAIN db : db[id].status = "open" /\ mp[id] = NoMapping}

\* loadMarkets, loadMappings and the loop, which has no await; the run is
\* reported by the markets it printed as waiting
CreatorList(p) ==
  /\ CanStart(p)
  /\ \E okM \in ReadOutcomes, okP \in ReadOutcomes :
       LET ready == ReadyForSync(LoadMarkets(okM), LoadMappings(okP))
       IN Finish(p, "list", NoAddr, "none",
                 IF ready = {} THEN "waiting_none"
                 ELSE IF ready = {"m1"} THEN "waiting_m1"
                 ELSE IF ready = {"m2"} THEN "waiting_m2"
                 ELSE "waiting_m1_m2")
  /\ UNCHANGED <<markets, mappings, chain, txs, allowance, serial, fsFaults,
                 adapter>>

(* ------------------------- graduation criteria ------------------------- *)

\* the documented graduation thresholds; time is counted in units of seven
\* days, so the lead time of seven days is one unit
MinCommitments == 5
MinAgents == 3
MinLeadTime == 1

\* the market is eligible for graduation at time now
Eligible(rec, now) ==
  /\ rec.commitments >= MinCommitments
  /\ rec.agents >= MinAgents
  /\ rec.deadline - now >= MinLeadTime
  /\ rec.rule.source # "manual"

(* ------------------------ Registry Store: transition ------------------ *)

\* the status state machine: open -> resolved -> settled -> finalized, and
\* invalid from open or resolved
Statuses == {"open", "resolved", "settled", "finalized", "invalid"}

Successor(st, new) ==
  \/ st = "open" /\ new = "resolved"
  \/ st = "resolved" /\ new = "settled"
  \/ st = "settled" /\ new = "finalized"
  \/ st \in {"open", "resolved"} /\ new = "invalid"

\* marketAddress values a transition request may carry (NoAddr: none)
FieldAddrs == {NoAddr, 1}

\* a store that accepts every request
TransitionAllowedAny(rec, new, fa) == new # rec.status

\* the request is accepted: new is the immediate successor and the fields
\* the transition requires (marketAddress before settled) are present
TransitionAllowed(rec, new, fa) ==
  /\ Successor(rec.status, new)
  /\ new = "settled" => (rec.market_address # NoAddr \/ fa # NoAddr)

TransitionApply(rec, new, fa) ==
  [rec EXCEPT !.status = new,
              !.market_address = IF fa # NoAddr THEN fa ELSE @]

\* transition(marketId, newStatus, fields): applied, or rejected with
\* InvalidTransitionError and nothing written
Transition(p, m, new, fa) ==
  /\ CanStart(p)
  /\ IF TransitionAllowed(markets[m], new, fa)
     THEN /\ markets' = [markets EXCEPT ![m] = TransitionApply(@, new, fa)]
          /\ Finish(p, "transition", NoAddr, m, "ok")
     ELSE /\ Finish(p, "transition", NoAddr, m, "InvalidTransitionError")
          /\ UNCHANGED markets
  /\ UNCHANGED <<mappings, chain, txs, allowance, serial, fsFaults, adapter>>

(* ------------------------------ Rule Evaluator ------------------------- *)

Ops == {"gte", "lte", "gt", "lt", "eq"}

\* what fetchMetric can return: NoValue when the source is unavailable
FetchedValues == {NoValue, 70000, 74990, 75000, 75010, 80000}

\* the relative tolerance of eq, in parts per thousand of the target
EqTolerancePerMille == 1

Abs(x) == IF x < 0 THEN -x ELSE x

\* an evaluator that takes gte for gt
ComparisonStrict(op, v, target) ==
  CASE op \in {"gte", "gt"} -> v > target
    [] op \in {"lte", "lt"} -> v < target
    [] op = "eq" -> Abs(v - target) * 1000 <= target * EqTolerancePerMille

Comparison(op, v, target) ==
  CASE op = "gte" -> v >= target
    [] op = "lte" -> v <= target
    [] op = "gt" -> v > target
    [] op = "lt" -> v < target
    [] op = "eq" -> Abs(v - target) * 1000 <= target * EqTolerancePerMille

\* an evaluator that compares an unavailable value like a number
EvaluateUnavailableAsNumber(rule, v) ==
  IF rule.source = "manual" THEN "PendingManualReview"
  ELSE IF Comparison(rule.op, v, rule.target) THEN "YES"
  ELSE "NO"

\* evaluate(rule, fetchedValue)
Evaluate(rule, v) ==
  IF rule.source = "manual" THEN "PendingManualReview"
  ELSE IF v = NoValue THEN "Indeterminate"
  ELSE IF Comparison(rule.op, v, rule.target) THEN "YES"
  ELSE "NO"

(* ----------------------------- Resolution Engine ----------------------- *)

\* a selection that ignores the deadline
CycleSelectsAnyOpen(rec, now) == rec.status = "open"

\* the markets runCycle(now) selects
CycleSelects(rec, now) == rec.status = "open" /\ rec.deadline <= now

\* the transition to resolved with the outcome and its evidence recorded
ResolveRecord(rec, o, v, now) ==
  [rec EXCEPT !.status = "resolved", !.outcome = o, !.outcomeValue = v,
              !.outcomeEvidence = [value |-> v, source |-> rec.rule.source],
              !.resolved_at = now]

\* what runCycle(now) does with market m when the data source returns v:
\* not selected, left for a manual decision, skipped as Indeterminate, or
\* resolved
CycleExamine(p, m, now, v) ==
  /\ CanStart(p)
  /\ LET rec == markets[m]
         o == Evaluate(rec.rule, v)
     IN IF ~CycleSelects(rec, now)
        THEN /\ Finish(p, "cycle", NoAddr, m, "not_selected")
             /\ UNCHANGED markets
        ELSE IF o \in {"PendingManualReview", "Indeterminate"}
        THEN /\ Finish(p, "cycle", NoAddr, m, o)
             /\ UNCHANGED markets
        ELSE /\ markets' = [markets EXCEPT ![m] = ResolveRecord(@, o, v, now)]
             /\ Finish(p, "cycle", NoAddr, m, "resolved")
  /\ UNCHANGED <<mappings, chain, txs, allowance, serial, fsFaults, adapter>>

(* ------------------------------- crash --------------------------------- *)

\* the process dies after its transaction was confirmed and before the
\* local write
Crash(p) ==
  /\ pc[p] \in {"s_mined", "f_mined", "c_mined"}
  /\ Finish(p, loc[p].cmd, loc[p].addr, loc[p].mid, "crashed")
  /\ UNCHANGED <<markets, mappings, chain, txs, allowance, serial, fsFaults, adapter>>

(* ------------------- Registry Store: create ---------------------------- *)

\* the markets handed to create: the question, the deadline and each rule
\* field may be missing ("none", NoTime, NoValue)
CandidateRules ==
  { [source |-> s, op |-> o, target |-> t] :
      s \in {"none", "manual", "coingecko"}, o \in {"none", "gte"},
      t \in {NoValue, 75000} }
Candidates(id) ==
  { [question |-> q, deadline |-> d, rule |-> r] :
      q \in {"none", id}, d \in {NoTime} \cup Times, r \in CandidateRules }

\* a validation that does not look at the rule
SchemaOkRuleUnchecked(cand) ==
  cand.question # "none" /\ cand.deadline # NoTime

\* the required fields are present
SchemaOk(cand) ==
  /\ cand.question # "none"
  /\ cand.deadline # NoTime
  /\ cand.rule.source # "none"
  /\ cand.rule.source # "manual"
       => (cand.rule.op # "none" /\ cand.rule.target # NoValue)

\* create(market) for an id not stored yet: the record is written, or the
\* request is rejected with SchemaError and nothing is written
RegistryCreate(p, id, cand) ==
  /\ CanStart(p)
  /\ markets[id].status = "absent"
  /\ IF SchemaOk(cand)
     THEN /\ markets' =
               [markets EXCEPT ![id] =
                  [Asked(MarketRecord(NoAddr, cand.rule, 0, 0), cand.question)
                     EXCEPT !.deadline = cand.deadline]]
          /\ Finish(p, "registry_create", NoAddr, id, "created")
     ELSE /\ Finish(p, "registry_create", NoAddr, id, "SchemaError")
          /\ UNCHANGED markets
  /\ UNCHANGED <<mappings, chain, txs, allowance, serial, fsFaults, adapter>>

(* ------------------- Registry Store: commitments ----------------------- *)

\* upsertCommitment(marketId, commitment) on an open market
UpsertCommitment(m, a, pos, conf) ==
  /\ markets[m].status = "open"
  /\ LET list == Upsert(ledger[m], a, pos, conf)
     IN  /\ ledger' = [ledger EXCEPT ![m] = list]
         /\ markets' =
              [markets EXCEPT
                 ![m].commitments = Len(list),
                 ![m].agents =
                    Cardinality({list[i].agent : i \in 1..Len(list)})]
  /\ UNCHANGED <<mappings, chain, allowance, txs, pc, loc, prevRun,
                 serial, fsFaults, codec, leaderboard>>

\* A market whose deadline has passed resolves with outcome o (the
\* evaluator's, or an external decision), Scoring is invoked for every
\* commitment on it, and the leaderboard takes the new scores in.
ResolveAndScore(m, o, now) ==
  /\ CycleSelects(markets[m], now)
  /\ markets' = [markets EXCEPT ![m] = ResolveRecord(@, o, NoValue, now)]
  /\ LET scored == [i \in 1..Len(ledger[m]) |->
                      [ledger[m][i] EXCEPT !.score = ScoreOf(ledger[m][i], o)]]
     IN  /\ ledger' = [ledger EXCEPT ![m] = scored]
         /\ leaderboard' =
              [a \in Agents |->
                 AddScores(leaderboard[a], a, Category[m], scored)]
  /\ UNCHANGED <<mappings, chain, allowance, txs, pc, loc, prevRun, serial,
                 fsFaults, codec>>

(* ------------------- Metadata Codec: operations ------------------------ *)

\* parse(raw)
CodecParse ==
  /\ codec.phase = "given"
  /\ codec' = [codec EXCEPT !.phase = "parsed", !.out = Parse(codec.raw)]
  /\ UNCHANGED <<markets, mappings, chain, allowance, txs, pc, loc, prevRun,
                 serial, fsFaults, ledger, leaderboard>>

\* format(metadata) of a parsed structure
CodecFormat ==
  /\ codec.phase = "parsed"
  /\ codec.out.res = "ok"
  /\ codec' = [codec EXCEPT !.phase = "formatted",
                            !.text = Format(codec.out.meta)]
  /\ UNCHANGED <<markets, mappings, chain, allowance, txs, pc, loc, prevRun,
                 serial, fsFaults, ledger, leaderboard>>

\* parse of the formatted text
CodecReparse ==
  /\ codec.phase = "formatted"
  /\ codec' = [codec EXCEPT !.phase = "reparsed",
                            !.back = Parse(codec.text)]
  /\ UNCHANGED <<markets, mappings, chain, allowance, txs, pc, loc, prevRun,
                 serial, fsFaults, ledger, leaderboard>>

(* ------------------------------ specification -------------------------- *)

Next ==
  \/ \E p \in Procs, a \in Addrs, o \in OutcomeInts : SettleRead(p, a, o)
  \/ \E p \in Procs : SettleTx(p)
  \/ \E p \in Procs : SettleWrite(p)
  \/ \E p \in Procs, a \in Addrs : FinalizeRead(p, a)
  \/ \E p \in Procs : FinalizeTx(p)
  \/ \E p \in Procs : FinalizeWrite(p)
  \/ \E p \in Procs, id \in InputIds, now \in Times : CreateStart(p, id, now)
  \/ \E p \in Procs : CreateBalance(p)
  \/ \E p \in Procs : CreateApprove(p)
  \/ \E p \in Procs : CreateTx(p)
  \/ \E p \in Procs : CreateSave(p)
  \/ \E p \in Procs : Crash(p)

\* the settler next to the Registry Store's transition requests
RegistryNext ==
  \/ \E p \in Procs, a \in Addrs, o \in OutcomeInts : SettleRead(p, a, o)
  \/ \E p \in Procs : SettleTx(p)
  \/ \E p \in Procs : SettleWrite(p)
  \/ \E p \in Procs, a \in Addrs : FinalizeRead(p, a)
  \/ \E p \in Procs : FinalizeTx(p)
  \/ \E p \in Procs : FinalizeWrite(p)
  \/ \E p \in Procs : Crash(p)
  \/ \E p \in Procs, m \in MarketIds, new \in Statuses, fa \in FieldAddrs :
        Transition(p, m, new, fa)

\* as Next, with the local update of settle and finalize taken as the two
\* file operations it consists of
FineNext ==
  \/ \E p \in Procs, a \in Addrs, o \in OutcomeInts : SettleRead(p, a, o)
  \/ \E p \in Procs : SettleTx(p)
  \/ \E p \in Procs : SettleLoad(p)
  \/ \E p \in Procs : SettleSave(p)
  \/ \E p \in Procs, a \in Addrs : FinalizeRead(p, a)
  \/ \E p \in Procs : FinalizeTx(p)
  \/ \E p \in Procs : FinalizeLoad(p)
  \/ \E p \in Procs : FinalizeSave(p)
  \/ \E p \in Procs, id \in InputIds, now \in Times : CreateStart(p, id, now)
  \/ \E p \in Procs : CreateBalance(p)
  \/ \E p \in Procs : CreateApprove(p)
  \/ \E p \in Procs : CreateTx(p)
  \/ \E p \in Procs : CreateSave(p)
  \/ \E p \in Procs : Crash(p)

\* invocations may overlap
Spec == Init /\ [][Next]_vars

\* invocations may overlap, file operations of different invocations too
FineSpec == Init /\ [][FineNext]_vars

\* invocations run one at a time
SerialSpec == SerialInit /\ [][Next]_vars

\* invocations may overlap and reads of the store files may fail
FaultySpec == FaultyInit /\ [][Next]_vars

\* the rules a stored market may carry: m1 any automatic rule on the
\* documented target, m2 a manual rule or an automatic one
CycleRules ==
  { r \in [MarketIds -> {ManualRule} \cup {AutoRule(op, 75000) : op \in Ops}] :
      /\ r["m1"].source # "manual"
      /\ r["m2"] \in {ManualRule, AutoRule("eq", 75000)} }

CycleInit == \E r \in CycleRules : InitWith(TRUE, FALSE, r)

CycleNext ==
  \E p \in Procs, m \in MarketIds, now \in Times, v \in FetchedValues :
     CycleExamine(p, m, now, v)

\* resolution cycles, one at a time
CycleSpec == CycleInit /\ [][CycleNext]_vars

\* settle, finalize and transition requests, one at a time
RegistrySpec == SerialInit /\ [][RegistryNext]_vars

\* an empty registry receiving create requests, one at a time
IntakeInit ==
  /\ markets = EmptyMarkets
  /\ SystemInit(TRUE, FALSE)
  /\ AdapterIdle

IntakeNext ==
  \E p \in Procs, id \in MarketIds : \E cand \in Candidates(id) :
     RegistryCreate(p, id, cand)

IntakeSpec == IntakeInit /\ [][IntakeNext]_vars

\* commitments arrive on the two stored markets, which then resolve
LedgerNext ==
  \/ \E m \in MarketIds, a \in Agents, pos \in Positions,
        conf \in Confidences : UpsertCommitment(m, a, pos, conf)
  \/ \E m \in MarketIds, o \in {"YES", "NO", "INVALID"}, now \in Times :
        ResolveAndScore(m, o, now)

\* two open markets without a commitment yet
LedgerInit ==
  /\ markets = [m \in MarketIds |->
                  Asked(MarketRecord(IF m = "m1" THEN 1 ELSE NoAddr,
                                     DefaultRules[m], 0, 0), m)]
  /\ SystemInit(TRUE, FALSE)
  /\ AdapterIdle

LedgerSpec == LedgerInit /\ [][LedgerNext]_vars

\* the codec given any of the texts: parse, format, parse again
CodecInit ==
  /\ StoreInit(TRUE, FALSE, DefaultRules)
  /\ \E t \in Texts : codec = [IdleCodec EXCEPT !.phase = "given", !.raw = t]
  /\ ledger = EmptyLedger
  /\ leaderboard = EmptyBoard

CodecNext == CodecParse \/ CodecFormat \/ CodecReparse

CodecSpec == CodecInit /\ [][CodecNext]_vars

\* The commands of settler.mjs, one at a time, on a registry whose two
\* markets may both be graduated and whose first market may have been
\* resolved YES already; settle is given any of the <outcome> arguments.
SettlerInit ==
  /\ \E a2 \in {NoAddr, 2}, resolved \in BOOLEAN :
       /\ markets = [m \in MarketIds |->
             LET rec == Asked(MarketRecord(IF m = "m1" THEN 1 ELSE a2,
                                           DefaultRules[m], 5, 3), m)
             IN  IF m = "m1" /\ resolved
                 THEN ResolveRecord(rec, "YES", NoValue, MaxTime)
                 ELSE rec]
       /\ \E adj \in Adjudicators :
             chain = [a \in Addrs |->
                        IF a = 1 THEN Deployed(adj, "m1")
                        ELSE IF a = a2 THEN Deployed(Wallet, "m2")
                        ELSE Undeployed]
  /\ mappings = EmptyMappings
  /\ allowance = FALSE
  /\ txs = [k \in TxKinds |->
              IF k \in {"settle", "finalize"}
              THEN [a \in Addrs |-> 0] ELSE [m \in MarketIds |-> 0]]
  /\ pc = [p \in Procs |-> "idle"]
  /\ loc = [p \in Procs |-> IdleLoc]
  /\ prevRun = NoRun
  /\ serial = TRUE
  /\ fsFaults = FALSE
  /\ AdapterIdle

SettlerNext ==
  \/ \E p \in Procs : ListStart(p)
  \/ \E p \in Procs : ListStep(p)
  \/ \E p \in Procs, a \in Addrs, arg \in OutcomeArgs :
        SettleRead(p, a, ParseInt(arg))
  \/ \E p \in Procs : SettleTx(p)
  \/ \E p \in Procs : SettleWrite(p)
  \/ \E p \in Procs, a \in Addrs : FinalizeRead(p, a)
  \/ \E p \in Procs : FinalizeTx(p)
  \/ \E p \in Procs : FinalizeWrite(p)
  \/ \E p \in Procs : Crash(p)

SettlerSpec == SettlerInit /\ [][SettlerNext]_vars

\* The commands of create-market.mjs, one at a time, on a registry whose
\* second market may lack its deadline and may have been resolved already.
CreatorInit ==
  /\ \E d2 \in {NoTime, MaxTime}, resolved \in BOOLEAN :
       markets = [m \in MarketIds |->
          LET rec == Asked(MarketRecord(NoAddr, DefaultRules[m], 5, 3), m)
          IN  IF m = "m1" THEN rec
              ELSE IF resolved
              THEN [ResolveRecord(rec, "NO", NoValue, MaxTime)
                      EXCEPT !.deadline = d2]
              ELSE [rec EXCEPT !.deadline = d2]]
  /\ mappings = EmptyMappings
  /\ chain = [a \in Addrs |-> Undeployed]
  /\ allowance = FALSE
  /\ txs = [k \in TxKinds |->
              IF k \in {"settle", "finalize"}
              THEN [a \in Addrs |-> 0] ELSE [m \in MarketIds |-> 0]]
  /\ pc = [p \in Procs |-> "idle"]
  /\ loc = [p \in Procs |-> IdleLoc]
  /\ prevRun = NoRun
  /\ serial = TRUE
  /\ fsFaults = FALSE
  /\ AdapterIdle

CreatorNext ==
  \/ \E p \in Procs : CreatorList(p)
  \/ \E p \in Procs, id \in InputIds, now \in Times : CreateStart(p, id, now)
  \/ \E p \in Procs : CreateBalance(p)
  \/ \E p \in Procs : CreateApprove(p)
  \/ \E p \in Procs : CreateTx(p)
  \/ \E p \in Procs : CreateSave(p)
  \/ \E p \in Procs : Crash(p)

CreatorSpec == CreatorInit /\ [][CreatorNext]_vars

\* Invocations run one at a time, every started invocation runs on until it
\* ends or crashes, and settle and finalize keep being invoked for every
\* deployed address, their on-chain read succeeding again and again (the
\* periodic settlement cycle).
Continue(p) ==
  \/ SettleTx(p) \/ SettleWrite(p)
  \/ FinalizeTx(p) \/ FinalizeWrite(p)
  \/ CreateBalance(p) \/ CreateApprove(p) \/ CreateTx(p) \/ CreateSave(p)

ReadSucceeded ==
  (\E p \in Procs : pc'[p] # "idle") \/ prevRun'.res # "error"

FairSpec ==
  /\ SerialSpec
  /\ \A p \in Procs : WF_vars(Continue(p))
  /\ \A a \in Addrs :
        /\ SF_vars(\E p \in Procs, o \in OutcomeInts :
                     SettleRead(p, a, o) /\ ReadSucceeded)
        /\ SF_vars(\E p \in Procs : FinalizeRead(p, a) /\ ReadSucceeded)

(* ================================ claims =============================== *)

AllIdle == \A p \in Procs : pc[p] = "idle"

\* case-insensitive equality of two identities, character by character
CaseVariants == { <<"a", "A">>, <<"A", "a">>, <<"b", "B">>, <<"B", "b">> }
SameIdentity(x, y) ==
  /\ Len(x) = Len(y)
  /\ \A i \in 1..Len(x) : x[i] = y[i] \/ <<x[i], y[i]>> \in CaseVariants

\* the local records of the market deployed at address a
LocalOf(a) == {m \in MarketIds : markets[m].market_address = a}

\* C1: with invocations run one at a time (crashes between confirmation and
\* local write included), an invocation that gets as far as submitting a
\* settle (finalize) transaction read isSettled = false (isFinalized = false)
\* from the chain itself, and no address ever has more than one confirmed
\* settle or more than one confirmed finalize transaction.
C1_ReadBeforeTransact ==
  /\ \A p \in Procs :
        /\ pc[p] \in {"s_checked", "s_mined"} =>
              ~loc[p].rd.error /\ ~loc[p].rd.isSettled
        /\ pc[p] \in {"f_checked", "f_mined"} =>
              ~loc[p].rd.error /\ ~loc[p].rd.isFinalized
  /\ \A a \in Addrs : txs["settle"][a] <= 1 /\ txs["finalize"][a] <= 1

\* a settle was confirmed, the process crashed before the local write, and a
\* later settle on the stale registry returned "Already settled"
C1_Witness ==
  /\ txs["settle"][1] = 1
  /\ markets["m1"].settled_tx = NoTx
  /\ prevRun.cmd = "settle" /\ prevRun.addr = 1 /\ prevRun.res = "already"

C3_ObservedSettlementRecorded ==
  (prevRun.cmd = "settle" /\ prevRun.res = "already") =>
     \A m \in LocalOf(prevRun.addr) :
        /\ markets[m].status = "settled"
        /\ markets[m].outcome = OUTCOMES[chain[prevRun.addr].outcome + 1]

\* the invocation a step of a serial behaviour belongs to
StepRun ==
  IF \E p \in Procs : pc[p] # "idle"
  THEN LET p == CHOOSE q \in Procs : pc[q] # "idle"
       IN [cmd |-> loc[p].cmd, addr |-> loc[p].addr]
  ELSE IF \E p \in Procs : pc'[p] # "idle"
  THEN LET p == CHOOSE q \in Procs : pc'[q] # "idle"
       IN [cmd |-> loc'[p].cmd, addr |-> loc'[p].addr]
  ELSE [cmd |-> prevRun'.cmd, addr |-> prevRun'.addr]

\* the step belongs to a run of settle or finalize that repeats the run
\* completed just before it
RepeatsPrevRun ==
  /\ prevRun.cmd \in {"settle", "finalize"}
  /\ StepRun.cmd = prevRun.cmd
  /\ StepRun.addr = prevRun.addr

C5_FailureLeavesLocalUnchanged ==
  [][ \A p \in Procs :
        (pc[p] \in {"s_checked", "f_checked"} /\ pc'[p] = "idle") =>
           /\ prevRun'.res = "tx_failed"
           /\ prevRun'.cmd = loc[p].cmd /\ prevRun'.addr = loc[p].addr
           /\ markets' = markets /\ mappings' = mappings
           /\ LET st == [error |-> FALSE,
                         isSettled |-> chain'[loc[p].addr].isSettled,
                         isFinalized |-> chain'[loc[p].addr].isFinalized,
                         isOurs |-> SameIdentity(
                            chain'[loc[p].addr].adjudicator, Wallet)]
              IN IF loc[p].cmd = "settle"
                 THEN SettleDecision(st) = "proceed"
                 ELSE FinalizeDecision(st) = "proceed"
    ]_vars

\* a settle transaction failed and the market is as before
C5_Witness ==
  /\ prevRun.cmd = "settle" /\ prevRun.res = "tx_failed"
  /\ markets["m1"].status = "open" /\ markets["m1"].settled_tx = NoTx
  /\ ~chain[1].isSettled

\* C6: every transaction hash, every chain-dependent status and every
\* market address in the local files belongs to a transaction confirmed on
\* chain.
C6_WritesFollowConfirmation ==
  /\ \A m \in MarketIds :
        /\ markets[m].settled_tx # NoTx =>
              /\ markets[m].settled_tx.kind = "settle"
              /\ markets[m].settled_tx.addr = markets[m].market_address
              /\ IsConfirmed(markets[m].settled_tx)
        /\ markets[m].finalized_tx # NoTx =>
              /\ markets[m].finalized_tx.kind = "finalize"
              /\ markets[m].finalized_tx.addr = markets[m].market_address
              /\ IsConfirmed(markets[m].finalized_tx)
        /\ markets[m].status = "settling" =>
              chain[markets[m].market_address].isSettled
        /\ markets[m].status = "finalized" =>
              chain[markets[m].market_address].isFinalized
  /\ \A m \in MarketIds :
        mappings[m] # NoMapping =>
           /\ chain[mappings[m].market_address].exists
           /\ chain[mappings[m].market_address].question = m
           /\ txs["create"][m] >= 1

\* settle and finalize have both written their hashes
C6_Witness ==
  \E m \in MarketIds :
     markets[m].settled_tx # NoTx /\ markets[m].finalized_tx # NoTx

\* the local record of m is behind the chain
Behind(m) ==
  /\ markets[m].market_address # NoAddr
  /\ LET c == chain[markets[m].market_address]
     IN \/ c.isFinalized /\ markets[m].status # "finalized"
        \/ c.isSettled /\ ~c.isFinalized
             /\ markets[m].status \notin {"settling", "settled"}

ChainFlags(m) ==
  <<chain[markets[m].market_address].isSettled,
    chain[markets[m].market_address].isFinalized>>

\* C7: whenever a local record is behind the chain, then, unless the chain
\* moves on, the record later agrees with the chain.
C7_EventuallyConsistent ==
  \A m \in MarketIds : \A f \in BOOLEAN \X BOOLEAN :
     (Behind(m) /\ ChainFlags(m) = f) ~> (~Behind(m) \/ ChainFlags(m) # f)

\* the immediate-successor relation of the documented state machine
StatusOrder == <<"open", "resolved", "settled", "finalized">>
ForwardStep(old, new) ==
  \/ \E i \in 1..(Len(StatusOrder) - 1) :
        old = StatusOrder[i] /\ new = StatusOrder[i + 1]
  \/ new = "invalid" /\ old \in {"open", "resolved"}

\* C8: every status is one of the five and every status change is a single
\* forward step of the state machine.
C8_StatusMonotonic ==
  [][ \A m \in MarketIds :
        /\ markets'[m].status \in Statuses
        /\ markets'[m].status # markets[m].status =>
              ForwardStep(markets[m].status, markets'[m].status) ]_vars

\* C9: a transition request either is rejected with InvalidTransitionError
\* and leaves the registry as it was, or is accepted, and then it made the
\* single forward step to its target with the required marketAddress
\* present; no other market is touched.
C9_TransitionRejectsInvalid ==
  [][ (AllIdle /\ AllIdle' /\ prevRun'.cmd = "transition") =>
        /\ prevRun'.res \in {"ok", "InvalidTransitionError"}
        /\ \A m \in MarketIds \ {prevRun'.mid} : markets'[m] = markets[m]
        /\ prevRun'.res = "InvalidTransitionError" => markets' = markets
        /\ prevRun'.res = "ok" =>
              /\ ForwardStep(markets[prevRun'.mid].status,
                             markets'[prevRun'.mid].status)
              /\ markets'[prevRun'.mid].status = "settled" =>
                    markets'[prevRun'.mid].market_address # NoAddr
    ]_vars

\* a request on a resolved market without address was rejected
C9_Witness ==
  /\ prevRun.cmd = "transition" /\ prevRun.res = "InvalidTransitionError"
  /\ markets[prevRun.mid].status = "resolved"
  /\ markets[prevRun.mid].market_address = NoAddr

\* C10: two overlapping create invocations for the same market id never
\* both have their createMarket transaction confirmed.
C10_SingleCreation ==
  \A p, q \in Procs :
     (p # q /\ loc[p].cmd = "create" /\ loc[q].cmd = "create"
        /\ loc[p].mid = loc[q].mid)
     => ~(pc[p] = "c_mined" /\ pc[q] = "c_mined")

\* C11: an invocation of create for a market id whose ChainMapping is in the
\* mappings file when it starts does not get past its mapping check (it
\* submits no approve and no createMarket transaction), and the step leaves
\* the mappings file as it was.
C11_MappedNeverResubmitted ==
  [][ \A p \in Procs :
        ( /\ pc[p] = "idle"
          /\ pc'[p] # "idle"
          /\ loc'[p].cmd = "create" )
        => mappings[loc'[p].mid] = NoMapping ]_vars

\* C12: with invocations run one at a time, no market id ever has a second
\* confirmed createMarket transaction, and once an invocation that got a
\* createMarket transaction confirmed has ended, the mappings file holds the
\* mapping of that market id to a market created for it.
C12_MappingWrittenOnce ==
  \A m \in MarketIds :
     /\ txs["create"][m] <= 1
     /\ (AllIdle /\ txs["create"][m] >= 1) =>
           /\ mappings[m] # NoMapping
           /\ chain[mappings[m].market_address].question = m

\* C13: an invocation of create whose createMarket transaction was submitted
\* and confirmed is for a market that, at the time the invocation evaluated
\* it, had at least 5 commitments, at least 3 distinct agents, at least seven
\* days left until its deadline and a rule source other than manual.
C13_GraduationCriteria ==
  \A p \in Procs :
     pc[p] = "c_mined" => Eligible(markets[loc[p].mid], loc[p].now)

\* C14: no step removes a market record from the markets file or a
\* ChainMapping from the mappings file.
C14_NoDelete ==
  [][ \A m \in MarketIds :
        /\ markets[m] # NoMarket => markets'[m] # NoMarket
        /\ mappings[m] # NoMapping => mappings'[m] # NoMapping ]_vars

\* the markets whose record an invocation is changing: it has loaded the
\* markets file and not yet written it back
Mutating(p) ==
  IF pc[p] \in {"s_loaded", "f_loaded"} THEN LocalOf(loc[p].addr) ELSE {}

\* C15: no two invocations are at the same time between their read of the
\* markets file and their write-back with a change to the same market, and
\* no write-back loses a transaction hash another invocation has recorded.
C15_OneMutationInFlight ==
  /\ [](\A p, q \in Procs : p # q => Mutating(p) \cap Mutating(q) = {})
  /\ [][ \A m \in MarketIds :
           /\ markets[m].settled_tx # NoTx => markets'[m].settled_tx # NoTx
           /\ markets[m].finalized_tx # NoTx =>
                 markets'[m].finalized_tx # NoTx ]_vars

\* C16: when a settle (finalize) invocation has succeeded on the address of
\* a market graduated by create, the ChainMapping of that market has status
\* settled (finalized).  (The mapping create writes has no field for a
\* settle or finalize transaction hash.)
C16_MappingMirrorsChain ==
  \A m \in MarketIds :
     ( /\ mappings[m] # NoMapping
       /\ prevRun.res = "ok"
       /\ prevRun.cmd \in {"settle", "finalize"}
       /\ prevRun.addr = mappings[m].market_address )
     => mappings[m].status =
           (IF prevRun.cmd = "settle" THEN "settled" ELSE "finalized")

\* the chain encoding as the specification states it
OutcomeLabel(i) ==
  CASE i = 0 -> "NO"
    [] i = 1 -> "YES"
    [] i = 2 -> "INVALID"

CompareHolds(op, v, t) ==
  \/ op = "gte" /\ v >= t
  \/ op = "lte" /\ v <= t
  \/ op = "gt" /\ v > t
  \/ op = "lt" /\ v < t
  \/ op = "eq" /\ (v - t) * 1000 <= t * EqTolerancePerMille
               /\ (t - v) * 1000 <= t * EqTolerancePerMille

\* C18: for every automatic rule and every available value the evaluator
\* returns YES when the comparison v op target holds and NO otherwise (for
\* gte 75000: YES at 80000, NO at 70000), and every market a cycle has
\* resolved carries the outcome of that comparison on its recorded value.
C18_EvaluatorComparison ==
  /\ \A op \in Ops, v \in FetchedValues \ {NoValue} :
        Evaluate(AutoRule(op, 75000), v) =
           (IF CompareHolds(op, v, 75000) THEN "YES" ELSE "NO")
  /\ Evaluate(AutoRule("gte", 75000), 80000) = "YES"
  /\ Evaluate(AutoRule("gte", 75000), 70000) = "NO"
  /\ \A m \in MarketIds :
        markets[m].status = "resolved" =>
           markets[m].outcome =
              (IF CompareHolds(markets[m].rule.op, markets[m].outcomeValue,
                               markets[m].rule.target)
               THEN "YES" ELSE "NO")

\* a cycle has resolved a gte market to YES on 80000 and an eq market to YES
\* on a value within the tolerance
C18_Witness ==
  /\ markets["m1"].status = "resolved"
  /\ markets["m1"].rule.op = "gte"
  /\ markets["m1"].outcomeValue = 80000 /\ markets["m1"].outcome = "YES"
  /\ markets["m2"].status = "resolved"
  /\ markets["m2"].rule.op = "eq"
  /\ markets["m2"].outcomeValue = 75010 /\ markets["m2"].outcome = "YES"

\* C19: no cycle resolves a market on an unavailable value; a cycle that
\* reports Indeterminate for a market leaves the whole registry unchanged,
\* the market open, and the market selected by a cycle at or after its
\* deadline as before.
C19_IndeterminateKeepsOpen ==
  [][ /\ \A m \in MarketIds :
            markets'[m] # markets[m] => markets'[m].outcomeValue # NoValue
      /\ prevRun'.res = "Indeterminate" =>
            /\ markets' = markets
            /\ markets'[prevRun'.mid].status = "open"
            /\ CycleSelects(markets'[prevRun'.mid],
                            markets'[prevRun'.mid].deadline) ]_vars

\* two cycles in a row found the value unavailable and the market is open
C19_Witness ==
  /\ prevRun.cmd = "cycle" /\ prevRun.res = "Indeterminate" /\ prevRun.again
  /\ markets[prevRun.mid].status = "open"
  /\ markets[prevRun.mid].outcome = "unset"

\* C20: a cycle changes a market only by resolving it, and only when the
\* market was open, its deadline is not after the cycle's time, its rule is
\* not manual and the outcome is definite; outcome, outcomeValue,
\* outcomeEvidence and resolved_at are then set; a manual market is never
\* changed by a cycle.
C20_CycleResolvesEligibleOnly ==
  [][ \A m \in MarketIds :
        markets'[m] # markets[m] =>
           /\ markets[m].status = "open"
           /\ markets'[m].status = "resolved"
           /\ markets[m].rule.source # "manual"
           /\ markets'[m].resolved_at # NoTime
           /\ markets[m].deadline <= markets'[m].resolved_at
           /\ markets'[m].outcome \in {"YES", "NO", "INVALID"}
           /\ markets'[m].outcomeValue # NoValue
           /\ markets'[m].outcomeEvidence # NoEvidence
           /\ markets'[m].rule = markets[m].rule ]_vars

\* a cycle at the deadline resolved the automatic market and left the manual
\* one for a manual decision
C20_Witness ==
  /\ markets["m1"].status = "resolved"
  /\ markets["m1"].resolved_at >= markets["m1"].deadline
  /\ markets["m2"].rule.source = "manual"
  /\ markets["m2"].status = "open"
  /\ prevRun.mid = "m2" /\ prevRun.res = "PendingManualReview"

(* ------------------------- claims: scoring ----------------------------- *)

\* C21: on a market resolved YES or NO every commitment's score, in
\* ten-thousandths, is 10000 - (c - 100 * o)^2 where c is its confidence and
\* o is 1 when its position is the winning outcome and 0 otherwise (YES at
\* 75 scores 9375 on YES and 4375 on NO, 50 scores 7500 either way).
C21_BrierScoreByPosition ==
  \A m \in MarketIds :
    markets[m].outcome \in {"YES", "NO"} =>
      \A i \in 1..Len(ledger[m]) :
        LET cm == ledger[m][i]
            o == IF cm.position = markets[m].outcome THEN 1 ELSE 0
            d == cm.confidence - 100 * o
        IN  cm.score = 10000 - d * d

\* C22: every commitment on a market whose outcome is INVALID has the null
\* score (not 0), and the step that resolves a market as INVALID leaves every
\* agent's aggregate (sum, count, per-category tallies) as it was.
C22_InvalidScoresNull ==
  /\ [](\A m \in MarketIds :
          markets[m].outcome = "INVALID" =>
            \A i \in 1..Len(ledger[m]) :
               ledger[m][i].score = NoScore /\ ledger[m][i].score # 0)
  /\ [][\A m \in MarketIds :
          (markets[m].outcome # "INVALID" /\ markets'[m].outcome = "INVALID")
            => leaderboard' = leaderboard]_vars

\* a market with commitments of both agents has resolved as INVALID
C22_Witness ==
  \E m \in MarketIds :
    /\ markets[m].outcome = "INVALID"
    /\ Len(ledger[m]) = 2

\* the scored commitments of agent a on markets of the categories cats, as
\* (market, index) pairs, and the sum of their scores
ScoredEntries(a, cats) ==
  { e \in MarketIds \X (1..Cardinality(Agents)) :
      /\ Category[e[1]] \in cats
      /\ e[2] <= Len(ledger[e[1]])
      /\ ledger[e[1]][e[2]].agent = a
      /\ ledger[e[1]][e[2]].score # NoScore }
RECURSIVE SumScores(_)
SumScores(S) ==
  IF S = {} THEN 0
  ELSE LET e == CHOOSE x \in S : TRUE
       IN  ledger[e[1]][e[2]].score + SumScores(S \ {e})
\* the aggregate recomputed from scratch from the stored commitments
Recomputed(a) ==
  [sum |-> SumScores(ScoredEntries(a, Categories)),
   count |-> Cardinality(ScoredEntries(a, Categories)),
   byCategory |->
     [c \in Categories |->
        [sum |-> SumScores(ScoredEntries(a, {c})),
         count |-> Cardinality(ScoredEntries(a, {c}))]]]

\* C23: after any sequence of upserts and resolutions with scoring, every
\* agent's incrementally maintained aggregate (sum, count, per-category
\* tallies) equals the aggregate recomputed from the stored commitments, and
\* no step makes an aggregate's count smaller.
C23_AggregateMatchesRecomputation ==
  /\ [](\A a \in Agents : leaderboard[a] = Recomputed(a))
  /\ [][\A a \in Agents :
          /\ leaderboard'[a].count >= leaderboard[a].count
          /\ \A c \in Categories :
               leaderboard'[a].byCategory[c].count
                 >= leaderboard[a].byCategory[c].count]_vars

\* one agent has a scored commitment in each category, the other agent has
\* exactly one scored commitment
C23_Witness ==
  /\ \E a \in Agents : \A c \in Categories :
        leaderboard[a].byCategory[c].count = 1
  /\ \E a \in Agents : leaderboard[a].count = 1

\* C24: a market never holds two commitments of one agent, and an upsert
\* either appends the first commitment of an agent or, for an agent who has
\* one, changes that commitment alone and in place: the list keeps its
\* length, the entry keeps its place and agent, every other entry is as it
\* was.
C24_OneCommitmentPerAgent ==
  /\ [](\A m \in MarketIds : \A i, j \in 1..Len(ledger[m]) :
          ledger[m][i].agent = ledger[m][j].agent => i = j)
  /\ [][\A m \in MarketIds :
          (markets'[m].status = "open" /\ ledger'[m] # ledger[m]) =>
            LET old == ledger[m]
                new == ledger'[m]
            IN  \/ /\ Len(new) = Len(old) + 1
                   /\ SubSeq(new, 1, Len(old)) = old
                   /\ \A i \in 1..Len(old) : old[i].agent # new[Len(new)].agent
                \/ /\ Len(new) = Len(old)
                   /\ \E i \in 1..Len(old) :
                        /\ new[i].agent = old[i].agent
                        /\ \A j \in 1..Len(old) : j # i => new[j] = old[j]]_vars

\* both agents have committed on one market, the agent who came first at
\* 100 and the one who came second at 50
C24_Witness ==
  \E m \in MarketIds :
    /\ Len(ledger[m]) = 2
    /\ markets[m].commitments = 2 /\ markets[m].agents = 2
    /\ ledger[m][1].confidence = 100 /\ ledger[m][2].confidence = 50

(* ------------------------- claims: metadata codec ---------------------- *)

\* the lines parse works on, and the tag of the top-level block that is open
\* at line i (the empty word when none is)
GivenLines == StripLines(codec.raw)
OpenTag(lines, i) ==
  LET tops == { j \in 1..(i - 1) :
                  IsTagLine(lines[j]) /\ ~IsSubTagLine(lines[j]) }
  IN  IF tops = {} THEN <<>>
      ELSE Tail(SplitWs1(lines[CHOOSE j \in tops : \A k \in tops : k <= j])[1])

\* the text without its line i
WithoutLine(lines, i) ==
  SubSeq(lines, 1, i - 1) \o SubSeq(lines, i + 1, Len(lines))

\* C25: in the result of a successful parse, every sub-tag line that stands
\* in an open top-level block is found under that block's key as a nested
\* mapping of its key:value tokens, whatever else the block holds (content
\* lines, a scalar on the tag's line); a sub-tag line before any block leaves
\* no trace: the result is that of the text without the line.
C25_SubTagsNested ==
  codec.out.res = "ok" =>
    \A i \in 1..Len(GivenLines) :
      IsSubTagLine(GivenLines[i]) =>
        LET parts == SplitWs1(GivenLines[i])
            key == SubKey(SubSeq(parts[1], 3, Len(parts[1])))
            pairs == IF Len(parts) > 1 THEN TokenPairs(SplitWsAll(parts[2]))
                     ELSE NoPairs
            tag == OpenTag(GivenLines, i)
            meta == codec.out.meta
        IN  IF tag = <<>>
            THEN meta = ParseQuestion(WithoutLine(GivenLines, i)).result
            ELSE /\ tag \in DOMAIN meta
                 /\ meta[tag].kind = "map"
                 /\ key \in DOMAIN meta[tag].map
                 /\ meta[tag].map[key] = SubEntry(pairs)

\* the content of the block opened by the top-level tag line j: the text on
\* the tag's line, then the lines without marker up to the next tag line
TopTagLines(lines) ==
  { j \in 1..Len(lines) : IsTagLine(lines[j]) /\ ~IsSubTagLine(lines[j]) }
RECURSIVE ContentFrom(_, _)
ContentFrom(lines, k) ==
  IF k > Len(lines) \/ k \in TopTagLines(lines) THEN <<>>
  ELSE IF IsSubTagLine(lines[k]) THEN ContentFrom(lines, k + 1)
  ELSE <<lines[k]>> \o ContentFrom(lines, k + 1)
BlockContent(lines, j) ==
  LET parts == SplitWs1(lines[j])
  IN  (IF Len(parts) > 1 THEN <<parts[2]>> ELSE <<>>)
        \o ContentFrom(lines, j + 1)

\* line l stands, whole, inside the string s
Retained(l, s) ==
  \E o \in 0..(Len(s) - Len(l)) : SubSeq(s, o + 1, o + Len(l)) = l

\* C26: in the result of a successful parse every top-level tag line has
\* its key, also when its block has no content; a block of exactly one
\* content line without ':' has that line, verbatim, as its value; any other
\* block with content has a mapping in which every content line with ':' is
\* a pair split at its first ':' and every content line without ':' is
\* retained under the reserved text key, none of several such lines lost.
C26_BlockClosure ==
  codec.out.res = "ok" =>
    \A j \in TopTagLines(GivenLines) :
      LET tag == Tail(SplitWs1(GivenLines[j])[1])
          content == BlockContent(GivenLines, j)
          meta == codec.out.meta
      IN  tag # <<>> =>
            /\ tag \in DOMAIN meta
            /\ (Len(content) = 1 /\ ~HasSep(content[1]))
                 => meta[tag] = StrValue(content[1])
            /\ (Len(content) > 1 \/ (Len(content) = 1 /\ HasSep(content[1])))
                 => /\ meta[tag].kind = "map"
                    /\ \A n \in 1..Len(content) :
                         IF HasSep(content[n])
                         THEN LET kv == SplitSep(content[n])
                              IN  /\ Strip(kv[1]) \in DOMAIN meta[tag].map
                                  /\ meta[tag].map[Strip(kv[1])]
                                       = StrEntry(Strip(kv[2]))
                         ELSE /\ TextKey \in DOMAIN meta[tag].map
                              /\ Retained(content[n],
                                          meta[tag].map[TextKey].str)

\* the last top-level tag line of the text that carries tag t and has
\* content (0: none), and the key:value pairs of the rule block as the text
\* gives them
LastTagLine(lines, t) ==
  LET js == { j \in TopTagLines(lines) :
                /\ Tail(SplitWs1(lines[j])[1]) = t
                /\ BlockContent(lines, j) # <<>> }
  IN  IF js = {} THEN 0 ELSE CHOOSE j \in js : \A k \in js : k <= j
RuleFields(lines) ==
  IF LastTagLine(lines, RuleKey) = 0 THEN NoEntries
  ELSE ContentPairs(BlockContent(lines, LastTagLine(lines, RuleKey)))

\* the required fields a text lacks: the question (absent or not a scalar),
\* the rule, its source, and for a source other than manual its metric, op
\* and numeric target
MissingFields(lines) ==
  LET q == LastTagLine(lines, QuestionKey)
      qc == IF q = 0 THEN <<>> ELSE BlockContent(lines, q)
      f == RuleFields(lines)
      auto == /\ <<"source">> \in DOMAIN f
              /\ f[<<"source">>].str # <<"manual">>
  IN  { x \in {"question"} : ~(Len(qc) = 1 /\ ~HasSep(qc[1])) }
      \cup { x \in {"rule"} : f = NoEntries }
      \cup { x \in {"rule.source"} : <<"source">> \notin DOMAIN f }
      \cup { x \in {"rule.metric"} : auto /\ <<"metric">> \notin DOMAIN f }
      \cup { x \in {"rule.op"} : auto /\ <<"op">> \notin DOMAIN f }
      \cup { x \in {"rule.target"} :
               auto /\ (\/ <<"target">> \notin DOMAIN f
                        \/ f[<<"target">>].str \notin NumberWords) }

\* C27: parse ends in a ParseError exactly when the text lacks a required
\* field, and the error names such a field; for every other text, whatever
\* its optional or unrecognized tags look like, parse returns the parsed
\* structure and fails in no other way.
C27_ParseErrorExactlyOnRequired ==
  codec.phase # "given" /\ codec.phase # "none" =>
    /\ codec.out.res \in {"ok", "ParseError"}
    /\ codec.out.res = "ParseError" <=> MissingFields(GivenLines) # {}
    /\ codec.out.res = "ParseError"
         => codec.out.field \in MissingFields(GivenLines)

C29_CreateRejectsIncomplete ==
  /\ [](\A m \in MarketIds :
          markets[m].status # "absent" =>
            /\ markets[m].question # "none"
            /\ markets[m].deadline # NoTime
            /\ markets[m].rule.source \in {"manual", "coingecko"}
            /\ markets[m].rule.source = "coingecko"
                 => (markets[m].rule.op # "none"
                     /\ markets[m].rule.target # NoValue))
  /\ [][/\ (prevRun'.cmd = "registry_create"
            /\ prevRun'.res = "SchemaError") => markets' = markets
        /\ markets' # markets =>
             /\ prevRun'.res = "created"
             /\ \A m \in MarketIds : m # prevRun'.mid => markets'[m] = markets[m]
       ]_vars

\* a create has just been rejected with SchemaError while the registry
\* holds a market created before
C29_Witness ==
  /\ prevRun.cmd = "registry_create" /\ prevRun.res = "SchemaError"
  /\ \E m \in MarketIds :
       markets[m].status = "open" /\ markets[m].rule.source = "coingecko"
  /\ \E m \in MarketIds : markets[m].status = "absent"

(* ------------------------- claims: frame -------------------------------- *)

\* C30: once a market's status is beyond open (resolved, settled, finalized
\* or invalid), no step changes its rule or its question.
C30_RuleAndQuestionFrozen ==
  [][\A m \in MarketIds :
       markets[m].status \in {"resolved", "settled", "finalized", "invalid"}
         => /\ markets'[m].rule = markets[m].rule
            /\ markets'[m].question = markets[m].question]_vars

\* C31: a finalize transaction is confirmed only for an invocation whose own
\* on-chain read reported the market settled; a local status becomes
\* finalized only in such an invocation, the chain holding the market
\* settled; and a finalize started on a market that is not settled on chain
\* ends at its read, with chain, transactions and local files unchanged.
C31_FinalizeOnlyAfterSettled ==
  [][ /\ \A a \in Addrs :
            txs'["finalize"][a] > txs["finalize"][a] =>
               \E p \in Procs :
                  /\ pc[p] = "f_checked" /\ loc[p].addr = a
                  /\ ~loc[p].rd.error /\ loc[p].rd.isSettled
      /\ \A m \in MarketIds :
            (markets'[m].status = "finalized"
               /\ markets[m].status # "finalized") =>
               /\ chain[markets[m].market_address].isSettled
               /\ \E p \in Procs :
                     /\ pc[p] = "f_mined"
                     /\ loc[p].addr = markets[m].market_address
                     /\ loc[p].rd.isSettled
      /\ \A p \in Procs, a \in Addrs :
            ( /\ AllIdle
              /\ ~chain[a].isSettled
              /\ \/ pc'[p] # "idle" /\ loc'[p].cmd = "finalize"
                                    /\ loc'[p].addr = a
                 \/ /\ \A q \in Procs : pc'[q] = "idle"
                    /\ prevRun'.cmd = "finalize" /\ prevRun'.addr = a )
            => /\ \A q \in Procs : pc'[q] = "idle"
               /\ prevRun'.res \in {"not_settled", "error"}
               /\ markets' = markets /\ mappings' = mappings
               /\ chain' = chain /\ txs' = txs
    ]_vars

\* m1 was settled and finalized, its record says finalized, and the finalize
\* run after that, on the deployed and unsettled market 2, was refused
C31_Witness ==
  /\ markets["m1"].status = "finalized"
  /\ chain[1].isSettled /\ chain[1].isFinalized
  /\ chain[2].exists /\ ~chain[2].isSettled
  /\ prevRun.cmd = "finalize" /\ prevRun.addr = 2
  /\ prevRun.res = "not_settled"

\* C32: an invocation that has had a settle transaction confirmed for an
\* address did so for a market whose local record is resolved, with the
\* outcome that record holds, in the chain's encoding (the index of the
\* outcome's label in OUTCOMES).
C32_SettleFollowsLocalOutcome ==
  \A p \in Procs :
     pc[p] = "s_mined" =>
        \E m \in LocalOf(loc[p].addr) :
           /\ markets[m].status = "resolved"
           /\ \E i \in OutcomeInts :
                 OUTCOMES[i + 1] = markets[m].outcome /\ loc[p].out = i

\* C33: a settle transaction is confirmed only with an outcome among 0, 1
\* and 2, and the outcome a settled market holds on chain is one of them.
C33_SettleOutcomeInRange ==
  /\ \A p \in Procs : pc[p] = "s_mined" => loc[p].out \in OutcomeInts
  /\ \A a \in Addrs : chain[a].isSettled => chain[a].outcome \in OutcomeInts

\* C34: no invocation gets past a failed on-chain read to a transaction; a
\* settle or finalize whose read cannot succeed (nothing is deployed at the
\* address) ends at the read, reporting the error, with chain, transactions
\* and local files unchanged, as does every run that reports a failed
\* read; and an iteration of list goes on to the remaining graduated
\* markets whether its read failed or not, changing nothing.
C34_FailedReadStopsOnlyThatRun ==
  [][ /\ \A p \in Procs :
            pc'[p] \in {"s_checked", "s_mined", "f_checked", "f_mined"} =>
               ~loc'[p].rd.error
      /\ \A p \in Procs, a \in Addrs :
            ( /\ AllIdle
              /\ ~chain[a].exists
              /\ \/ pc'[p] # "idle" /\ loc'[p].cmd \in {"settle", "finalize"}
                                    /\ loc'[p].addr = a
                 \/ /\ \A q \in Procs : pc'[q] = "idle"
                    /\ prevRun'.cmd \in {"settle", "finalize"}
                    /\ prevRun'.addr = a )
            => /\ \A q \in Procs : pc'[q] = "idle"
               /\ prevRun'.res = "error"
      /\ ( /\ AllIdle
            /\ \A q \in Procs : pc'[q] = "idle"
            /\ prevRun'.res = "error" ) =>
            /\ markets' = markets /\ mappings' = mappings
            /\ chain' = chain /\ txs' = txs
      /\ \A p \in Procs :
            pc[p] = "l_iter" =>
               /\ markets' = markets /\ mappings' = mappings
               /\ chain' = chain /\ txs' = txs
               /\ Len(loc[p].rest) > 1 =>
                     /\ pc'[p] = "l_iter"
                     /\ loc'[p].rest = Tail(loc[p].rest)
                     /\ loc'[p].shown = loc[p].shown + 1
    ]_vars

\* list is at its second market, the read for the first one having failed
C34_Witness ==
  \E p \in Procs :
     /\ pc[p] = "l_iter" /\ loc[p].cmd = "list"
     /\ loc[p].shown = 1 /\ loc[p].rd.error
     /\ loc[p].rest = <<"m2">>

\* C35: an invocation of create that has got as far as the approve
\* transaction or the createMarket call holds a deadline that is a number
\* and lies after the `now` of its check.
C35_DeadlineCheckedBeforeTransacting ==
  \A p \in Procs :
     pc[p] \in {"c_approved", "c_mined"} =>
        /\ loc[p].deadline # NaN
        /\ loc[p].deadline > loc[p].now

\* C36: a createMarket transaction is confirmed only for a market whose
\* local status is open, the status list requires of a market it prints as
\* waiting for sync.
C36_OnlyOpenMarketsGraduate ==
  \A p \in Procs :
     pc[p] = "c_mined" =>
        /\ markets[loc[p].mid].status = "open"
        /\ loc[p].mid \in ReadyForSync(markets, loc[p].snap)

\* C37: the step in which a settle or finalize invocation, its transaction
\* confirmed, ends leaves the mappings as they are, leaves every record
\* whose market_address is not the invocation's address as it is, and
\* changes at most status and settled_tx (settle) or status and finalized_tx
\* (finalize) of the records with that address.
C37_LocalUpdateFrame ==
  [][ \A p \in Procs :
        ( /\ pc[p] \in {"s_mined", "s_loaded", "f_mined", "f_loaded"}
          /\ pc'[p] = "idle" ) =>
           /\ mappings' = mappings
           /\ \A m \in MarketIds :
                 IF markets[m].market_address = loc[p].addr
                 THEN markets'[m] =
                        IF loc[p].cmd = "settle"
                        THEN [markets[m] EXCEPT
                                !.status = markets'[m].status,
                                !.settled_tx = markets'[m].settled_tx]
                        ELSE [markets[m] EXCEPT
                                !.status = markets'[m].status,
                                !.finalized_tx = markets'[m].finalized_tx]
                 ELSE markets'[m] = markets[m]
    ]_vars

====
